---- MODULE Spec2Model ----
(***************************************************************************)
(* Market valuation of the fintrack portfolio tracker: the catalog store   *)
(* (instruments, quotes), the asset ledger (assets and their detail rows), *)
(* the quote lookups and market_value_for_asset of portfolio/services.py.  *)
(*                                                                         *)
(* Decimal values are modelled as python's decimal.Decimal: a coefficient  *)
(* (a sequence of decimal digits, most significant first) and an exponent. *)
(* TLC's integers are 32 bits wide, the coefficients are not.              *)
(***************************************************************************)
EXTENDS Integers, Sequences, FiniteSets, TLC

(***************************************************************************)
(* Natural numbers of any size.  A coefficient is a sequence of decimal    *)
(* digits (most significant first, no leading zero, <<0>> for zero); the   *)
(* arithmetic runs on limbs of four digits (base 10000), which keeps every *)
(* intermediate value inside TLC's 32-bit integers and every loop short.   *)
(* The accumulators of the loops are compared with themselves before each  *)
(* step: TLC evaluates arguments lazily, and an unevaluated accumulator    *)
(* would nest one evaluation per limb.                                     *)
(***************************************************************************)
Base == 10000

Zeros(n) == [i \in 1..n |-> 0]

AllZero(ds) == \A i \in 1..Len(ds) : ds[i] = 0

\* without leading zeros
Strip(ds) ==
    IF Len(ds) = 0 \/ AllZero(ds) THEN <<0>>
    ELSE LET first == CHOOSE i \in 1..Len(ds) :
                          ds[i] # 0 /\ \A j \in 1..(i - 1) : ds[j] = 0
         IN  SubSeq(ds, first, Len(ds))

ToLimbs(ds) ==
    LET n == (Len(ds) + 3) \div 4
        p == Zeros(4 * n - Len(ds)) \o ds
    IN  [i \in 1..n |-> 1000 * p[4 * i - 3] + 100 * p[4 * i - 2]
                        + 10 * p[4 * i - 1] + p[4 * i]]

Pow10(k) == CASE k = 0 -> 1 [] k = 1 -> 10 [] k = 2 -> 100 [] OTHER -> 1000

FromLimbs(ls) ==
    Strip([j \in 1..(4 * Len(ls)) |->
              (ls[(j + 3) \div 4] \div Pow10(3 - ((j - 1) % 4))) % 10])

PadTo(ls, n) == IF Len(ls) >= n THEN ls ELSE Zeros(n - Len(ls)) \o ls

Longer(a, b) == IF Len(a) > Len(b) THEN Len(a) ELSE Len(b)

\* a < b on limb sequences of one length: at the first limb that differs
LimbsLess(a, b) ==
    \E i \in 1..Len(a) : a[i] < b[i] /\ \A j \in 1..(i - 1) : a[j] = b[j]

LLess(a, b) == LimbsLess(PadTo(a, Longer(a, b)), PadTo(b, Longer(a, b)))

RECURSIVE AddAcc(_, _, _, _, _)
AddAcc(a, b, i, carry, acc) ==
    IF i = 0 THEN (IF carry = 0 THEN acc ELSE <<carry>> \o acc)
    ELSE LET v    == a[i] + b[i] + carry
             next == <<v % Base>> \o acc
         IN  IF next = next THEN AddAcc(a, b, i - 1, v \div Base, next) ELSE <<>>

LAdd(a, b) == AddAcc(PadTo(a, Longer(a, b)), PadTo(b, Longer(a, b)), Longer(a, b), 0, <<>>)

\* a - b for a >= b
RECURSIVE SubAcc(_, _, _, _, _)
SubAcc(a, b, i, borrow, acc) ==
    IF i = 0 THEN acc
    ELSE LET v    == a[i] - b[i] - borrow
             next == <<IF v < 0 THEN v + Base ELSE v>> \o acc
         IN  IF next = next THEN SubAcc(a, b, i - 1, IF v < 0 THEN 1 ELSE 0, next)
             ELSE <<>>

LSub(a, b) == SubAcc(PadTo(a, Longer(a, b)), PadTo(b, Longer(a, b)), Longer(a, b), 0, <<>>)

\* a * m for one limb m
RECURSIVE MulLimbAcc(_, _, _, _, _)
MulLimbAcc(a, m, i, carry, acc) ==
    IF i = 0 THEN (IF carry = 0 THEN acc ELSE <<carry>> \o acc)
    ELSE LET v    == a[i] * m + carry
             next == <<v % Base>> \o acc
         IN  IF next = next THEN MulLimbAcc(a, m, i - 1, v \div Base, next) ELSE <<>>

MulLimb(a, m) == MulLimbAcc(a, m, Len(a), 0, <<>>)

RECURSIVE MulAcc(_, _, _, _)
MulAcc(a, b, j, acc) ==
    IF j > Len(b) THEN acc
    ELSE LET next == LAdd(acc \o <<0>>, MulLimb(a, b[j]))
         IN  IF next = next THEN MulAcc(a, b, j + 1, next) ELSE <<>>

LMul(a, b) == MulAcc(a, b, 1, <<0>>)

\* the largest k in lo..hi with b * k <= cur (b * lo <= cur is given)
RECURSIVE QuotLimb(_, _, _, _)
QuotLimb(b, cur, lo, hi) ==
    IF lo = hi THEN lo
    ELSE LET mid == (lo + hi + 1) \div 2
         IN  IF LLess(cur, MulLimb(b, mid)) THEN QuotLimb(b, cur, lo, mid - 1)
             ELSE QuotLimb(b, cur, mid, hi)

\* divmod(a, b) for b > 0, by long division
RECURSIVE DivAcc(_, _, _, _, _)
DivAcc(a, b, i, rem, q) ==
    IF i > Len(a) THEN [q |-> q, r |-> rem]
    ELSE LET cur  == rem \o <<a[i]>>
             d    == QuotLimb(b, cur, 0, Base - 1)
             nrem == LSub(cur, MulLimb(b, d))
             nq   == Append(q, d)
         IN  IF nrem = nrem /\ nq = nq THEN DivAcc(a, b, i + 1, nrem, nq)
             ELSE [q |-> <<>>, r |-> <<>>]

BigAdd(a, b) == FromLimbs(LAdd(ToLimbs(a), ToLimbs(b)))

BigMul(a, b) == FromLimbs(LMul(ToLimbs(a), ToLimbs(b)))

BigDivMod(a, b) ==
    LET dm == DivAcc(ToLimbs(a), ToLimbs(b), 1, <<0>>, <<>>)
    IN  [q |-> FromLimbs(dm.q), r |-> FromLimbs(dm.r)]

BigLess(a, b) == LLess(ToLimbs(a), ToLimbs(b))

BigIsZero(a) == AllZero(a)

(***************************************************************************)
(* decimal.Decimal under the default context (prec = 28, ROUND_HALF_EVEN)  *)
(* that services.py computes in: a value is [c |-> coefficient digits,     *)
(* e |-> exponent] and stands for c * 10^e.  Only non-negative values are  *)
(* modelled (prices, weights and purities).                                *)
(***************************************************************************)
Prec == 28

Dec(c, e) == [c |-> Strip(c), e |-> e]

\* Decimal(None): the null of an optional Decimal; None for an optional string
NoDecimal == [c |-> <<>>, e |-> 0]
NoCurrency == "None"

InvalidOperation == [raised |-> "InvalidOperation"]

Raised(r) == "raised" \in DOMAIN r

\* the rounding decisions on keeping the first `keep` digits of c
RoundsUpHalfEven(c, keep) ==
    /\ Len(c) > keep
    /\ \/ c[keep + 1] > 5
       \/ /\ c[keep + 1] = 5
          /\ \/ ~AllZero(SubSeq(c, keep + 2, Len(c)))
             \/ (keep > 0 /\ c[keep] % 2 = 1)

RoundsUpHalfUp(c, keep) == Len(c) > keep /\ c[keep + 1] >= 5

\* Decimal._fix: the context's rounding of a result to Prec significant digits
Fix(d) ==
    IF Len(d.c) <= Prec THEN d
    ELSE LET kept  == SubSeq(d.c, 1, Prec)
             coeff == IF RoundsUpHalfEven(d.c, Prec) THEN BigAdd(kept, <<1>>) ELSE kept
             exp   == d.e + Len(d.c) - Prec
         IN  IF Len(coeff) > Prec
             THEN [c |-> SubSeq(coeff, 1, Prec), e |-> exp + 1]
             ELSE [c |-> coeff, e |-> exp]

\* Decimal.__add__ of non-negative values: the exact sum at the smaller
\* exponent, then the context's rounding
DecAdd(a, b) ==
    LET exp == IF a.e < b.e THEN a.e ELSE b.e
    IN  Fix([c |-> BigAdd(a.c \o Zeros(a.e - exp), b.c \o Zeros(b.e - exp)),
             e |-> exp])

\* Decimal.__mul__
DecMul(a, b) == Fix([c |-> BigMul(a.c, b.c), e |-> a.e + b.e])

RECURSIVE TrimTo(_, _, _)
TrimTo(c, e, ideal) ==
    IF e < ideal /\ Len(c) > 1 /\ c[Len(c)] = 0
    THEN LET rest == SubSeq(c, 1, Len(c) - 1)
         IN  IF rest = rest THEN TrimTo(rest, e + 1, ideal) ELSE [c |-> <<>>, e |-> 0]
    ELSE [c |-> c, e |-> e]

\* Decimal.__truediv__ for a non-zero divisor: Prec + 1 digits of quotient with a
\* sticky last digit when inexact, then the context's rounding
DecDiv(a, b) ==
    IF BigIsZero(a.c) THEN [c |-> <<0>>, e |-> a.e - b.e]
    ELSE LET shift == Len(b.c) - Len(a.c) + Prec + 1
             exp   == a.e - b.e - shift
             dm    == IF shift >= 0
                      THEN BigDivMod(a.c \o Zeros(shift), b.c)
                      ELSE BigDivMod(a.c, b.c \o Zeros(0 - shift))
             q     == dm.q
         IN  IF BigIsZero(dm.r) THEN Fix(TrimTo(q, exp, a.e - b.e))
             ELSE IF q[Len(q)] % 5 = 0 THEN Fix([c |-> BigAdd(q, <<1>>), e |-> exp])
             ELSE Fix([c |-> q, e |-> exp])

\* Decimal._rescale(exp, ROUND_HALF_UP)
Rescale(d, exp) ==
    IF BigIsZero(d.c) THEN [c |-> <<0>>, e |-> exp]
    ELSE IF d.e >= exp THEN [c |-> d.c \o Zeros(d.e - exp), e |-> exp]
    ELSE LET digits == Len(d.c) + d.e - exp
             src    == IF digits < 0 THEN <<1>> ELSE d.c
             keep   == IF digits < 0 THEN 0 ELSE digits
             kept   == IF keep = 0 THEN <<0>> ELSE SubSeq(src, 1, keep)
         IN  [c |-> IF RoundsUpHalfUp(src, keep) THEN BigAdd(kept, <<1>>) ELSE Strip(kept),
              e |-> exp]

\* Decimal.quantize(Decimal(10^exp), rounding=ROUND_HALF_UP): InvalidOperation when
\* the result would need more than Prec digits
Quantize(d, exp) ==
    IF BigIsZero(d.c) THEN [c |-> <<0>>, e |-> exp]
    ELSE IF d.e + Len(d.c) - exp > Prec THEN InvalidOperation
    ELSE LET ans == Rescale(d, exp)
         IN  IF Len(ans.c) > Prec THEN InvalidOperation ELSE ans

(***************************************************************************)
(* The catalog store (catalog/models.py) and the asset ledger              *)
(* (portfolio/models.py).  A foreign key is the pk of the row it points    *)
(* to, 0 for NULL.  A quote's pk and its price source are left out: rows   *)
(* that differ only in them are the same row to every lookup.  accounts is *)
(* the Account table in the order of creation, transactions the            *)
(* Transaction table.                                                      *)
(***************************************************************************)
VARIABLES instruments, quotes, accounts, assets, investment, metal, transactions,
          ret

vars == <<instruments, quotes, accounts, assets, investment, metal, transactions,
          ret>>

\* bounds of the model
MaxQuotes == 2
MaxTs == 2

InstrumentKind == {"EQUITY", "ETF", "CRYPTO", "COMMODITY"}

AssetCategory ==
    {"CASH", "INVESTMENT", "REAL_ESTATE", "PRECIOUS_METAL", "COLLECTIBLE", "OTHER"}

Metal == {"GOLD", "SILVER", "PLATINUM", "PALLADIUM"}

\* The instrument rows the catalog is given, in the order of their creation (the
\* pk of a row is its position): a gold ETF and two commodities of the name Gold,
\* which no constraint of Instrument excludes.
InstrumentRows ==
    << [kind |-> "ETF", name |-> "Gold"],
       [kind |-> "COMMODITY", name |-> "Gold"],
       [kind |-> "COMMODITY", name |-> "Gold"] >>

\* Listing.instrument and Token.instrument of the catalog's listings and tokens:
\* a listing and a token of instrument 1, and a listing of instrument 2
ListingInstrument == <<1, 2>>
TokenInstrument == <<1>>

InstrumentIds == 1..Len(instruments)
ListingIds == {l \in 1..Len(ListingInstrument) : ListingInstrument[l] \in InstrumentIds}
TokenIds == {t \in 1..Len(TokenInstrument) : TokenInstrument[t] \in InstrumentIds}

\* the pks the ledger gives to assets
MaxAssets == 2
AssetPks == 1..MaxAssets

\* the pks the ledger gives to transactions
MaxTxns == 2
TxnPks == 1..MaxTxns

\* the users that log in
Users == {1, 2}

Timestamps == 1..MaxTs

\* Quote.price is DecimalField(max_digits=24, decimal_places=8): exponent -8
Price(units) == [c |-> Strip(units \o Zeros(8)), e |-> -8]

\* the (price, currency) pairs quotes are created with
QuoteInputs ==
    { <<Price(<<1, 0, 0>>), "USD">>, <<Price(<<1, 1, 0>>), "USD">>,
      <<Price(<<1, 1, 0>>), "EUR">> }

\* the purity and weight_grams (three decimal places) metal rows are created with
Purities == { [c |-> <<9, 9, 9>>, e |-> -3] }
Weights == { [c |-> <<1, 0, 0, 0, 0, 0>>, e |-> -3] }

NoCall == [op |-> "none", arg |-> 0, result |-> 0]

\* (value, currency) as market_value_for_asset returns it
MV(value, currency) == [value |-> value, currency |-> currency]
NotPriced == MV(NoDecimal, NoCurrency)

(***************************************************************************)
(* portfolio/services.py.  A lookup is the set of rows it can return: the  *)
(* ORDER BY of a quote lookup names ts alone, and the database is free in  *)
(* the order of rows of one ts.                                            *)
(***************************************************************************)
OZT_TO_GRAM == [c |-> <<3, 1, 1, 0, 3, 4, 7, 6, 8>>, e |-> -7]

\* None, as a quote row
NoQuote ==
    [instrument |-> 0, listing |-> 0, token |-> 0, ts |-> 0,
     price |-> NoDecimal, currency |-> NoCurrency]

\* Quote.objects.filter(<field>=id)
QuoteFilter(field, id) == {q \in quotes : q[field] = id}

\* .order_by("ts").first(): the oldest row first
OrderByTsAscFirst(rows) ==
    IF rows = {} THEN {NoQuote}
    ELSE {q \in rows : \A r \in rows : q.ts <= r.ts}

\* .order_by("-ts").first()
OrderByTsDescFirst(rows) ==
    IF rows = {} THEN {NoQuote}
    ELSE {q \in rows : \A r \in rows : r.ts <= q.ts}

_latest_quote_for_listing(listing_id) ==
    IF listing_id = 0 THEN {NoQuote}
    ELSE OrderByTsDescFirst(QuoteFilter("listing", listing_id))

_latest_quote_for_token(token_id) ==
    IF token_id = 0 THEN {NoQuote}
    ELSE OrderByTsDescFirst(QuoteFilter("token", token_id))

_latest_quote_for_instrument(instrument_id) ==
    IF instrument_id = 0 THEN {NoQuote}
    ELSE OrderByTsDescFirst(QuoteFilter("instrument", instrument_id))

\* Instrument.objects.filter(kind=COMMODITY, name=name) read in no order: any of
\* the rows found
_commodity_instrument_unordered(name) ==
    LET found == {i \in InstrumentIds :
                     instruments[i].kind = "COMMODITY" /\ instruments[i].name = name}
    IN  IF found = {} THEN {0} ELSE found

\* Instrument.objects.filter(name=name).first(): the kind is not filtered on
_instrument_by_name(name) ==
    LET found == {i \in InstrumentIds : instruments[i].name = name}
    IN  IF found = {} THEN {0}
        ELSE {i \in found : \A j \in found : i <= j}

\* Instrument.objects.filter(kind=COMMODITY, name=name).first(), as the set of
\* pks it can return: first() orders an unordered queryset by pk; 0 for None
_commodity_instrument_by_name(name) ==
    LET found == {i \in InstrumentIds :
                     instruments[i].kind = "COMMODITY" /\ instruments[i].name = name}
    IN  IF found = {} THEN {0}
        ELSE {i \in found : \A j \in found : i <= j}

metal_name_map ==
    [GOLD |-> "Gold", SILVER |-> "Silver", PLATINUM |-> "Platinum",
     PALLADIUM |-> "Palladium"]

\* price_per_gram quantized to two places
price_per_gram_cents(q) == Quantize(DecDiv(q.price, OZT_TO_GRAM), -2)

\* the three quantized stages of value_precious_metal
price_per_gram(q) == Quantize(DecDiv(q.price, OZT_TO_GRAM), -6)

fine_weight(detail) == Quantize(DecMul(detail.weight_grams, detail.purity), -3)

MetalValue(q, detail) ==
    LET ppg == price_per_gram(q)
        fw  == fine_weight(detail)
    IN  IF Raised(ppg) THEN ppg
        ELSE IF Raised(fw) THEN fw
        ELSE LET value == Quantize(DecMul(fw, ppg), -2)
             IN  IF Raised(value) THEN value ELSE MV(value, q.currency)

value_precious_metal(detail) ==
    LET name == IF detail.metal \in DOMAIN metal_name_map
                THEN metal_name_map[detail.metal] ELSE ""
    IN  IF name = "" THEN {NotPriced}
        ELSE UNION { IF inst = 0 THEN {NotPriced}
                     ELSE {IF q = NoQuote THEN NotPriced ELSE MetalValue(q, detail) :
                               q \in _latest_quote_for_instrument(inst)} :
                     inst \in _commodity_instrument_by_name(name) }

\* hasattr(asset, "investment"), asset.investment; the same for "metal"
HasInvestment(a) == \E d \in investment : d.asset = a
InvestmentOf(a) == CHOOSE d \in investment : d.asset = a
HasMetal(a) == \E d \in metal : d.asset = a
MetalOf(a) == CHOOSE d \in metal : d.asset = a

\* (Decimal(q.price), "USD"): the default of Asset.currency in place of q.currency
QuoteValueDefaultCurrency(q) == MV(q.price, "USD")

\* (Decimal(q.price), q.currency)
QuoteValue(q) == MV(q.price, q.currency)

\* the INVESTMENT branch with the token read before the listing
InvestmentValueTokenFirst(inv) ==
    LET ql == _latest_quote_for_listing(inv.listing)
        qt == _latest_quote_for_token(inv.token)
        qi == _latest_quote_for_instrument(inv.instrument)
    IN  IF inv.token # 0 /\ qt # {NoQuote} THEN {QuoteValue(q) : q \in qt}
        ELSE IF inv.listing # 0 /\ ql # {NoQuote} THEN {QuoteValue(q) : q \in ql}
        ELSE IF qi # {NoQuote} THEN {QuoteValue(q) : q \in qi}
        ELSE {NotPriced}

\* the INVESTMENT branch with the instrument-level quote consulted only when
\* neither listing nor token is set
InvestmentValueNoFallback(inv) ==
    LET ql == _latest_quote_for_listing(inv.listing)
        qt == _latest_quote_for_token(inv.token)
        qi == _latest_quote_for_instrument(inv.instrument)
    IN  IF inv.listing # 0
        THEN {IF q = NoQuote THEN NotPriced ELSE QuoteValue(q) : q \in ql}
        ELSE IF inv.token # 0
        THEN {IF q = NoQuote THEN NotPriced ELSE QuoteValue(q) : q \in qt}
        ELSE {IF q = NoQuote THEN NotPriced ELSE QuoteValue(q) : q \in qi}

InvestmentValue(inv) ==
    LET ql == _latest_quote_for_listing(inv.listing)
        qt == _latest_quote_for_token(inv.token)
        qi == _latest_quote_for_instrument(inv.instrument)
    IN  IF inv.listing # 0 /\ ql # {NoQuote} THEN {QuoteValue(q) : q \in ql}
        ELSE IF inv.token # 0 /\ qt # {NoQuote} THEN {QuoteValue(q) : q \in qt}
        ELSE IF qi # {NoQuote} THEN {QuoteValue(q) : q \in qi}
        ELSE {NotPriced}

\* market_value_for_asset dispatching on the detail rows alone, not on the category
market_value_by_detail(a) ==
    IF HasInvestment(a) THEN InvestmentValue(InvestmentOf(a))
    ELSE IF HasMetal(a) THEN value_precious_metal(MetalOf(a))
    ELSE {NotPriced}

\* market_value_for_asset reading asset.investment without hasattr: the access
\* raises RelatedObjectDoesNotExist when the row is missing
market_value_no_hasattr(a) ==
    IF assets[a].category = "INVESTMENT"
    THEN IF HasInvestment(a) THEN InvestmentValue(InvestmentOf(a))
         ELSE {[raised |-> "RelatedObjectDoesNotExist"]}
    ELSE IF assets[a].category = "PRECIOUS_METAL" /\ HasMetal(a)
    THEN value_precious_metal(MetalOf(a))
    ELSE {NotPriced}

\* the results market_value_for_asset can return for the asset of pk a
market_value_for_asset(a) ==
    IF assets[a].category = "INVESTMENT" /\ HasInvestment(a)
    THEN InvestmentValue(InvestmentOf(a))
    ELSE IF assets[a].category = "PRECIOUS_METAL" /\ HasMetal(a)
    THEN value_precious_metal(MetalOf(a))
    ELSE {NotPriced}

(***************************************************************************)
(* portfolio/views.py, PortfolioOverviewView.  An amount is the number of  *)
(* currency units of a Transaction.amount, of either sign: the database    *)
(* sums the column exactly.  A name is ordered by its place in the         *)
(* database's collation.  A dict is a function of its keys.                *)
(***************************************************************************)
\* the names rows are given, in the order of the database's collation
Collation == <<"A", "B", "a", "b">>

Rank(name) == CHOOSE i \in DOMAIN Collation : Collation[i] = name

AccountName(a) == accounts[assets[a].account].name

\* Sum(F("transactions__amount") - F("transactions__fee")): the fee taken off
RECURSIVE Sum_amount_less_fee(_)
Sum_amount_less_fee(rows) ==
    IF rows = {} THEN 0
    ELSE LET r == CHOOSE r \in rows : TRUE
         IN  r.amount - r.fee + Sum_amount_less_fee(rows \ {r})

\* Sum("transactions__amount") of a non-empty set of joined rows
RECURSIVE Sum_amount(_)
Sum_amount(rows) ==
    IF rows = {} THEN 0
    ELSE LET r == CHOOSE r \in rows : TRUE
         IN  r.amount + Sum_amount(rows \ {r})

\* the annotation summing the transactions of every asset (a join that lost its
\* condition)
balance_of_all(a) ==
    IF transactions = {} THEN 0 ELSE Sum_amount(transactions)

\* the annotation balance=Coalesce(Sum("transactions__amount"), Decimal("0.00"))
balance(a) ==
    LET rows == {t \in transactions : t.asset = a}
    IN  IF rows = {} THEN 0 ELSE Sum_amount(rows)

\* .order_by("account__name", "name"): a precedes b, or ties with it
order_by_account_name_name(a, b) ==
    \/ Rank(AccountName(a)) < Rank(AccountName(b))
    \/ /\ AccountName(a) = AccountName(b)
       /\ Rank(assets[a].name) <= Rank(assets[b].name)

\* Asset.objects.all(): the assets of every user
filter_none(user) == DOMAIN assets

\* Asset.objects.filter(account__owner=user)
filter_account_owner(user) ==
    {a \in DOMAIN assets : accounts[assets[a].account].owner = user}

\* get_queryset as the lists it can evaluate to: the user's assets, one row
\* each (the join to transactions is grouped by asset), in the order of the
\* ORDER BY; the database is free in the order of rows that tie
get_queryset(user) ==
    LET owned == filter_account_owner(user)
        n     == Cardinality(owned)
    IN  {s \in [1..n -> owned] :
            \A i, j \in 1..n :
                i < j => s[i] # s[j] /\ order_by_account_name_name(s[i], s[j])}

\* defaultdict(Decimal): d[k] += v, on amounts and on Decimal market values
AddBalance(d, k, v) ==
    IF k \in DOMAIN d THEN [d EXCEPT ![k] = @ + v] ELSE (k :> (0 + v)) @@ d

AddMarket(d, k, v) ==
    IF k \in DOMAIN d THEN [d EXCEPT ![k] = DecAdd(@, v)]
    ELSE (k :> DecAdd([c |-> <<0>>, e |-> 0], v)) @@ d

EmptyDict == <<>>

\* grouped.setdefault(a.account.name, []): the keys in the order of insertion
RECURSIVE GroupNames(_, _, _)
GroupNames(s, i, acc) ==
    IF i > Len(s) THEN acc
    ELSE LET name == AccountName(s[i])
             next == IF \E k \in DOMAIN acc : acc[k] = name THEN acc
                     ELSE Append(acc, name)
         IN  GroupNames(s, i + 1, next)

\* one entry of rows: `a.balance or Decimal("0")`, the asset's currency and the
\* market value computed for it
Row(a, mv) ==
    [asset |-> a, balance |-> balance(a),
     balance_currency |-> assets[a].currency,
     market_value |-> mv.value, market_currency |-> mv.currency]

GroupRows(s, mvs, name) ==
    LET InGroup(a) == AccountName(a) = name
        items == SelectSeq(s, InGroup)
    IN  [i \in 1..Len(items) |-> Row(items[i], mvs[items[i]])]

\* if bal_amt: totals_bal[bal_ccy] += bal_amt: no key for a balance of 0
RECURSIVE TotalsBalanceNonZero(_, _, _)
TotalsBalanceNonZero(rows, i, acc) ==
    IF i > Len(rows) THEN acc
    ELSE TotalsBalanceNonZero(rows, i + 1,
             IF rows[i].balance # 0
             THEN AddBalance(acc, rows[i].balance_currency, rows[i].balance)
             ELSE acc)

\* totals_bal[bal_ccy] += bal_amt over the rows from i on
RECURSIVE TotalsBalance(_, _, _)
TotalsBalance(rows, i, acc) ==
    IF i > Len(rows) THEN acc
    ELSE TotalsBalance(rows, i + 1,
                       AddBalance(acc, rows[i].balance_currency, rows[i].balance))

\* totals_mv[a.currency] += mv: the market value put under the asset's currency
RECURSIVE TotalsMarketByAssetCurrency(_, _, _)
TotalsMarketByAssetCurrency(rows, i, acc) ==
    IF i > Len(rows) THEN acc
    ELSE LET r == rows[i]
         IN  TotalsMarketByAssetCurrency(rows, i + 1,
                 IF r.market_value # NoDecimal /\ r.market_currency # NoCurrency
                 THEN AddMarket(acc, r.balance_currency, r.market_value)
                 ELSE acc)

\* if mv is not None and mv_ccy: totals_mv[mv_ccy] += mv
RECURSIVE TotalsMarket(_, _, _)
TotalsMarket(rows, i, acc) ==
    IF i > Len(rows) THEN acc
    ELSE LET r == rows[i]
         IN  TotalsMarket(rows, i + 1,
                 IF r.market_value # NoDecimal /\ r.market_currency # NoCurrency
                 THEN AddMarket(acc, r.market_currency, r.market_value)
                 ELSE acc)

\* grand_bal_totals rebuilt for each group: the totals of the last one
RECURSIVE GrandBalanceOfLastGroup(_, _, _)
GrandBalanceOfLastGroup(groups, g, acc) ==
    IF g > Len(groups) THEN acc
    ELSE GrandBalanceOfLastGroup(groups, g + 1,
                                 TotalsBalance(groups[g].rows, 1, EmptyDict))

\* the grand totals: the same additions, carried from one group to the next
RECURSIVE GrandBalance(_, _, _)
GrandBalance(groups, g, acc) ==
    IF g > Len(groups) THEN acc
    ELSE GrandBalance(groups, g + 1, TotalsBalance(groups[g].rows, 1, acc))

RECURSIVE GrandMarket(_, _, _)
GrandMarket(groups, g, acc) ==
    IF g > Len(groups) THEN acc
    ELSE GrandMarket(groups, g + 1, TotalsMarket(groups[g].rows, 1, acc))

\* get_context_data on the list s of assets, mvs[a] being what
\* market_value_for_asset returned for a; the rows of a group and the list of
\* groups are each built once, then read by the totals
get_context_data(s, mvs) ==
    LET names == GroupNames(s, 1, <<>>)
        Group(name, rows) ==
            [name |-> name, rows |-> rows,
             totals_balance |-> TotalsBalance(rows, 1, EmptyDict),
             totals_market |-> TotalsMarket(rows, 1, EmptyDict)]
        Context(groups) ==
            [accounts |-> groups,
             grand_totals |-> EmptyDict,
             grand_bal_totals |-> GrandBalance(groups, 1, EmptyDict),
             grand_mv_totals |-> GrandMarket(groups, 1, EmptyDict)]
        grouped ==
            [g \in 1..Len(names) |->
                CHOOSE grp \in {Group(names[g], rows) :
                                   rows \in {GroupRows(s, mvs, names[g])}} : TRUE]
    IN  CHOOSE context \in {Context(groups) : groups \in {grouped}} : TRUE

\* the responses the overview of the user can give: the context, or the
\* exception market_value_for_asset raised on the first asset it raised on
PortfolioOverviewView(user) ==
    LET owned == filter_account_owner(user)
        Responses(values) ==
            {IF \E i \in DOMAIN s : Raised(mvs[s[i]])
             THEN mvs[s[CHOOSE i \in DOMAIN s :
                            /\ Raised(mvs[s[i]])
                            /\ \A j \in 1..(i - 1) : ~Raised(mvs[s[j]])]]
             ELSE get_context_data(s, mvs) :
                s \in get_queryset(user),
                mvs \in {f \in [owned -> {v[2] : v \in values}] :
                            \A a \in owned : <<a, f[a]>> \in values}}
    IN  UNION {Responses(values) :
                  values \in {UNION {{<<a, r>> : r \in market_value_for_asset(a)} :
                                        a \in owned}}}

(***************************************************************************)
(* Writes.  A write ends the validity of the last response: ret is the     *)
(* response of the last call made since the last write.                    *)
(***************************************************************************)
\* Instrument is created by the catalog admin or seed_catalog
CreateInstrument ==
    /\ Len(instruments) < Len(InstrumentRows)
    /\ instruments' = Append(instruments, InstrumentRows[Len(instruments) + 1])
    /\ ret' = NoCall
    /\ UNCHANGED <<quotes, accounts, assets, investment, metal, transactions>>

\* a check that asks for a target, and not for one alone
quote_some_target(q) == q.instrument # 0 \/ q.listing # 0 \/ q.token # 0

\* CheckConstraint quote_exactly_one_target
quote_exactly_one_target(q) ==
    \/ q.instrument # 0 /\ q.listing = 0 /\ q.token = 0
    \/ q.instrument = 0 /\ q.listing # 0 /\ q.token = 0
    \/ q.instrument = 0 /\ q.listing = 0 /\ q.token # 0

\* A Quote row is inserted (QuoteAdmin, seed_catalog): the foreign keys
\* resolve and the check constraint holds.  unique_together never rejects a row,
\* one of listing and token being NULL in every row.
CreateQuote(instrument, listing, token, ts, price, currency) ==
    LET q == [instrument |-> instrument, listing |-> listing, token |-> token,
              ts |-> ts, price |-> price, currency |-> currency]
    IN  /\ Cardinality(quotes) < MaxQuotes
        /\ instrument \in InstrumentIds \cup {0}
        /\ listing \in ListingIds \cup {0}
        /\ token \in TokenIds \cup {0}
        /\ quote_exactly_one_target(q)
        /\ quotes' = quotes \cup {q}
        /\ ret' = NoCall
        /\ UNCHANGED <<instruments, accounts, assets, investment, metal, transactions>>

\* InvestmentDetailsForm.clean: the cleaned (listing, token), or "invalid"
Invalid == [invalid |-> TRUE]

InvestmentDetailsForm_clean(mode, listing, token) ==
    IF mode = "equity"
    THEN IF listing = 0 \/ token # 0 THEN Invalid
         ELSE [listing |-> listing, token |-> 0]
    ELSE IF mode = "crypto"
    THEN IF token = 0 \/ listing # 0 THEN Invalid
         ELSE [listing |-> 0, token |-> token]
    ELSE Invalid

\* clean refusing only a row with neither target
InvestmentDetails_clean_neither(d) ==
    LET has_listing == d.listing # 0
        has_token   == d.token # 0
        derived     == IF has_listing THEN ListingInstrument[d.listing]
                       ELSE TokenInstrument[d.token]
    IN  IF ~has_listing /\ ~has_token THEN Invalid
        ELSE IF d.instrument # 0 /\ d.instrument # derived THEN Invalid
        ELSE [d EXCEPT !.instrument = derived]

\* clean deriving the instrument only when none is given
InvestmentDetails_clean_keeping(d) ==
    LET has_listing == d.listing # 0
        has_token   == d.token # 0
        derived     == IF has_listing THEN ListingInstrument[d.listing]
                       ELSE TokenInstrument[d.token]
    IN  IF has_listing = has_token THEN Invalid
        ELSE IF d.instrument # 0 THEN d
        ELSE [d EXCEPT !.instrument = derived]

\* InvestmentDetails.clean on a row: the row with its instrument derived, or
\* "invalid" (ValidationError)
InvestmentDetails_clean(d) ==
    LET has_listing == d.listing # 0
        has_token   == d.token # 0
        derived     == IF has_listing THEN ListingInstrument[d.listing]
                       ELSE TokenInstrument[d.token]
    IN  IF has_listing = has_token THEN Invalid
        ELSE IF d.instrument # 0 /\ d.instrument # derived THEN Invalid
        ELSE [d EXCEPT !.instrument = derived]

\* an Account row created with no check of (owner, name)
CreateAccountUnchecked(owner, name) ==
    /\ accounts' = Append(accounts, [owner |-> owner, name |-> name])
    /\ ret' = NoCall
    /\ UNCHANGED <<instruments, quotes, assets, investment, metal, transactions>>

\* An Account row is created (AccountAdmin, seed_portfolio): unique_together
\* (owner, name)
CreateAccount(owner, name) ==
    /\ \A i \in DOMAIN accounts :
           ~(accounts[i].owner = owner /\ accounts[i].name = name)
    /\ accounts' = Append(accounts, [owner |-> owner, name |-> name])
    /\ ret' = NoCall
    /\ UNCHANGED <<instruments, quotes, assets, investment, metal, transactions>>

NextPk == CHOOSE pk \in AssetPks \ DOMAIN assets :
              \A other \in AssetPks \ DOMAIN assets : pk <= other

AssetRow(account, name, category, currency) ==
    [account |-> account, name |-> name, category |-> category,
     currency |-> currency]

\* UniqueConstraint unique_one_cash_asset_per_account: the row may be stored
\* under pk
unique_one_cash_asset_per_account(pk, row) ==
    row.category = "CASH" =>
        \A other \in DOMAIN assets \ {pk} :
            ~(assets[other].category = "CASH" /\ assets[other].account = row.account)

\* An Asset is added with its InvestmentDetails inline (AssetAdmin): the inline's
\* model form runs InvestmentDetails.clean, which derives the instrument.  The
\* public create view saves the Asset without its type, which the column refuses.
CreateInvestmentAsset(account, name, currency, listing, token) ==
    LET pk  == NextPk
        row == InvestmentDetails_clean(
                   [asset |-> pk, instrument |-> 0,
                    listing |-> listing, token |-> token])
    IN  /\ AssetPks \ DOMAIN assets # {}
        /\ account \in DOMAIN accounts
        /\ listing \in ListingIds \cup {0}
        /\ token \in TokenIds \cup {0}
        /\ row # Invalid
        /\ assets' = (pk :> AssetRow(account, name, "INVESTMENT", currency)) @@ assets
        /\ investment' = investment \cup {row}
        /\ ret' = NoCall
        /\ UNCHANGED <<instruments, quotes, accounts, metal, transactions>>

\* An Asset is added with its PreciousMetalDetails inline (AssetAdmin,
\* seed_portfolio)
CreateMetalAsset(account, name, currency, m, purity, weight_grams) ==
    LET pk == NextPk
    IN  /\ AssetPks \ DOMAIN assets # {}
        /\ account \in DOMAIN accounts
        /\ assets' = (pk :> AssetRow(account, name, "PRECIOUS_METAL", currency))
                         @@ assets
        /\ metal' = metal \cup {[asset |-> pk, metal |-> m, purity |-> purity,
                                 weight_grams |-> weight_grams]}
        /\ ret' = NoCall
        /\ UNCHANGED <<instruments, quotes, accounts, investment, transactions>>

\* An Asset of a category whose detail rows no valuation reads is added
\* (AssetAdmin, seed_portfolio)
CreateOtherAsset(account, name, category, currency) ==
    LET row == AssetRow(account, name, category, currency)
    IN  /\ AssetPks \ DOMAIN assets # {}
        /\ account \in DOMAIN accounts
        /\ category \in AssetCategory \ {"INVESTMENT", "PRECIOUS_METAL"}
        /\ unique_one_cash_asset_per_account(NextPk, row)
        /\ assets' = (NextPk :> row) @@ assets
        /\ ret' = NoCall
        /\ UNCHANGED <<instruments, quotes, accounts, investment, metal,
                       transactions>>

\* AssetUpdateView.post on an asset of category INVESTMENT: asset.investment
\* raises when the row is missing; base.save() stores the posted account, name,
\* category and currency.  The view looks the asset up by pk alone and gives the
\* base form no owner: any account can be posted.
UpdateInvestmentAsset(pk, account, name, category, currency, mode, listing, token) ==
    LET cleaned == InvestmentDetailsForm_clean(mode, listing, token)
        old     == InvestmentOf(pk)
        base    == AssetRow(account, name, category, currency)
        row     == InvestmentDetails_clean(
                       [old EXCEPT !.listing = cleaned.listing,
                                   !.token = cleaned.token])
    IN  /\ pk \in DOMAIN assets
        /\ assets[pk].category = "INVESTMENT"
        /\ HasInvestment(pk)
        /\ account \in DOMAIN accounts
        /\ unique_one_cash_asset_per_account(pk, base)
        /\ listing \in ListingIds \cup {0}
        /\ token \in TokenIds \cup {0}
        /\ cleaned # Invalid
        /\ row # Invalid
        /\ assets' = [assets EXCEPT ![pk] = base]
        /\ investment' = (investment \ {old}) \cup {row}
        /\ ret' = NoCall
        /\ UNCHANGED <<instruments, quotes, accounts, metal, transactions>>

\* AssetUpdateView.post on an asset of another category: the detail form of the
\* category is bound to asset.detail, the first detail row the asset has
\* (investment before metal).  It changes that row when it is the category's own
\* (here: a PreciousMetalDetails under PRECIOUS_METAL) and no field of it
\* otherwise; base.save() stores the posted account, name, category and currency.
UpdateOtherAsset(pk, account, name, category, currency, m, purity, weight_grams) ==
    LET base == AssetRow(account, name, category, currency)
    IN  /\ pk \in DOMAIN assets
        /\ assets[pk].category # "INVESTMENT"
        /\ account \in DOMAIN accounts
        /\ unique_one_cash_asset_per_account(pk, base)
        /\ assets' = [assets EXCEPT ![pk] = base]
        /\ IF assets[pk].category = "PRECIOUS_METAL" /\ ~HasInvestment(pk)
              /\ HasMetal(pk)
           THEN metal' = (metal \ {MetalOf(pk)})
                             \cup {[asset |-> pk, metal |-> m, purity |-> purity,
                                    weight_grams |-> weight_grams]}
           ELSE metal' = metal
        /\ ret' = NoCall
        /\ UNCHANGED <<instruments, quotes, accounts, investment, transactions>>

\* get_object_or_404(Asset, pk=asset_pk): the asset of any user
AnyAsset(user, asset_pk) == asset_pk \in DOMAIN assets

\* get_object_or_404(Asset.objects.filter(account__owner=user), pk=asset_pk)
OwnedBy(user, asset_pk) ==
    asset_pk \in DOMAIN assets /\ accounts[assets[asset_pk].account].owner = user

NextTxnPk == CHOOSE pk \in TxnPks \ {t.pk : t \in transactions} :
                 \A other \in TxnPks \ {t.pk : t \in transactions} : pk <= other

\* TransactionCreateView.post
CreateTransaction(user, asset_pk, amount, fee, timestamp) ==
    /\ OwnedBy(user, asset_pk)
    /\ TxnPks \ {t.pk : t \in transactions} # {}
    /\ transactions' = transactions \cup
           {[pk |-> NextTxnPk, asset |-> asset_pk, amount |-> amount, fee |-> fee,
             timestamp |-> timestamp]}
    /\ ret' = NoCall
    /\ UNCHANGED <<instruments, quotes, accounts, assets, investment, metal>>

\* TransactionUpdateView.post: the transaction is looked up among those of the
\* asset
UpdateTransaction(user, asset_pk, pk, amount, fee, timestamp) ==
    /\ OwnedBy(user, asset_pk)
    /\ \E txn \in transactions :
           /\ txn.pk = pk
           /\ txn.asset = asset_pk
           /\ transactions' = (transactions \ {txn}) \cup
                  {[txn EXCEPT !.amount = amount, !.fee = fee,
                               !.timestamp = timestamp]}
    /\ ret' = NoCall
    /\ UNCHANGED <<instruments, quotes, accounts, assets, investment, metal>>

\* TransactionDeleteView.post
DeleteTransaction(user, asset_pk, pk) ==
    /\ OwnedBy(user, asset_pk)
    /\ \E txn \in transactions :
           /\ txn.pk = pk
           /\ txn.asset = asset_pk
           /\ transactions' = transactions \ {txn}
    /\ ret' = NoCall
    /\ UNCHANGED <<instruments, quotes, accounts, assets, investment, metal>>

\* AssetDeleteView: the asset is looked up among the user's; its detail rows and
\* its transactions go with it (on_delete=CASCADE)
DeleteAsset(user, pk) ==
    /\ OwnedBy(user, pk)
    /\ assets' = [a \in DOMAIN assets \ {pk} |-> assets[a]]
    /\ investment' = {d \in investment : d.asset # pk}
    /\ metal' = {d \in metal : d.asset # pk}
    /\ transactions' = {t \in transactions : t.asset # pk}
    /\ ret' = NoCall
    /\ UNCHANGED <<instruments, quotes, accounts>>

(***************************************************************************)
(* Calls: ret records the operation, its argument and what it returned.    *)
(***************************************************************************)
LatestQuoteForListing(id) ==
    /\ \E q \in _latest_quote_for_listing(id) :
           ret' = [op |-> "_latest_quote_for_listing", arg |-> id, result |-> q]
    /\ UNCHANGED <<instruments, quotes, accounts, assets, investment, metal,
                   transactions>>

LatestQuoteForToken(id) ==
    /\ \E q \in _latest_quote_for_token(id) :
           ret' = [op |-> "_latest_quote_for_token", arg |-> id, result |-> q]
    /\ UNCHANGED <<instruments, quotes, accounts, assets, investment, metal,
                   transactions>>

LatestQuoteForInstrument(id) ==
    /\ \E q \in _latest_quote_for_instrument(id) :
           ret' = [op |-> "_latest_quote_for_instrument", arg |-> id, result |-> q]
    /\ UNCHANGED <<instruments, quotes, accounts, assets, investment, metal,
                   transactions>>

\* market_value_for_asset deleting the quote it priced the asset from
MarketValueForAssetConsuming(a) ==
    /\ a \in DOMAIN assets
    /\ \E r \in market_value_for_asset(a) :
           /\ ret' = [op |-> "market_value_for_asset", arg |-> a, result |-> r]
           /\ quotes' = {q \in quotes : r = NotPriced \/ q.price # r.value}
    /\ UNCHANGED <<instruments, accounts, assets, investment, metal, transactions>>

MarketValueForAsset(a) ==
    /\ a \in DOMAIN assets
    /\ \E r \in market_value_for_asset(a) :
           ret' = [op |-> "market_value_for_asset", arg |-> a, result |-> r]
    /\ UNCHANGED <<instruments, quotes, accounts, assets, investment, metal,
                   transactions>>

PortfolioOverview(user) ==
    /\ \E r \in PortfolioOverviewView(user) :
           ret' = [op |-> "overview", arg |-> user, result |-> r]
    /\ UNCHANGED <<instruments, quotes, accounts, assets, investment, metal,
                   transactions>>

\* the inputs the requests are made with
Currencies == {"USD"}
MetalInputs == {"GOLD", "SILVER"}
Modes == {"equity", "crypto"}
ListingInputs == 0..1
TokenInputs == 0..Len(TokenInstrument)
InstrumentInputs == 0..Len(InstrumentRows)

Init ==
    /\ instruments = <<>>
    /\ quotes = {}
    /\ accounts = <<>>
    /\ assets = <<>>
    /\ investment = {}
    /\ metal = {}
    /\ transactions = {}
    /\ ret = NoCall

CatalogWrite ==
    \/ CreateInstrument
    \/ \E i \in InstrumentInputs, l \in ListingInputs, t \in TokenInputs,
          ts \in Timestamps, pc \in QuoteInputs :
           CreateQuote(i, l, t, ts, pc[1], pc[2])

\* one account, of user 1
AccountWrite == CreateAccount(1, "A")

\* the ledger of one asset, named "a", in that account
LedgerWrite ==
    \/ \E c \in Currencies, l \in ListingInputs, t \in TokenInputs :
           /\ assets = <<>>
           /\ CreateInvestmentAsset(1, "a", c, l, t)
    \/ \E c \in Currencies, m \in MetalInputs, pu \in Purities, w \in Weights :
           /\ assets = <<>>
           /\ CreateMetalAsset(1, "a", c, m, pu, w)
    \/ \E cat \in AssetCategory, c \in Currencies :
           /\ assets = <<>>
           /\ CreateOtherAsset(1, "a", cat, c)
    \/ \E pk \in AssetPks, cat \in AssetCategory, c \in Currencies, mode \in Modes,
          l \in ListingInputs, t \in TokenInputs :
           UpdateInvestmentAsset(pk, 1, "a", cat, c, mode, l, t)
    \/ \E pk \in AssetPks, cat \in AssetCategory, c \in Currencies,
          m \in MetalInputs, pu \in Purities, w \in Weights :
           UpdateOtherAsset(pk, 1, "a", cat, c, m, pu, w)

Lookup ==
    \/ \E id \in ListingInputs \cup {Len(ListingInstrument) + 1} :
           LatestQuoteForListing(id)
    \/ \E id \in TokenInputs \cup {Len(TokenInstrument) + 1} : LatestQuoteForToken(id)
    \/ \E id \in InstrumentInputs : LatestQuoteForInstrument(id)

Valuation == \E a \in AssetPks : MarketValueForAsset(a)

Next == CatalogWrite \/ AccountWrite \/ LedgerWrite \/ Valuation

Spec == Init /\ [][Next]_vars

\* the quote lookups alone, over the catalog
NextLookup == CatalogWrite \/ Lookup

SpecLookup == Init /\ [][NextLookup]_vars

(***************************************************************************)
(* Properties of the quote lookups (SpecLookup).                           *)
(***************************************************************************)
\* the target field a lookup operation filters on
LookupField ==
    [_latest_quote_for_listing |-> "listing", _latest_quote_for_token |-> "token",
     _latest_quote_for_instrument |-> "instrument"]

IsLookup == ret.op \in DOMAIN LookupField

\* the quotes whose target of the lookup's kind is the id the lookup was given;
\* NULL (0) equals no id
Targeting == {q \in quotes : ret.arg # 0 /\ q[LookupField[ret.op]] = ret.arg}

\* C1: a quote lookup by listing, token or instrument id returns null exactly
\* when no quote has that target, and otherwise a stored quote of that target
\* whose ts is greater than or equal to the ts of every other quote of the target.
C1_LatestQuote ==
    IsLookup =>
        /\ (ret.result = NoQuote) <=> (Targeting = {})
        /\ ret.result # NoQuote =>
               /\ ret.result \in Targeting
               /\ \A q \in Targeting : q.ts <= ret.result.ts

\* a lookup returned the newer of two quotes of its target
C1_Witness ==
    /\ IsLookup
    /\ ret.result # NoQuote
    /\ \E q \in Targeting : q.ts < ret.result.ts

(***************************************************************************)
(* Properties of market_value_for_asset over the store (Spec).             *)
(***************************************************************************)
IsValuation == ret.op = "market_value_for_asset"

\* the valued asset's category, "" when the last response is no valuation
ValuedCategory == IF IsValuation THEN assets[ret.arg].category ELSE ""

\* the detail rows of the valued asset
ValuedInvestment == {d \in investment : IsValuation /\ d.asset = ret.arg}
ValuedMetal == {d \in metal : IsValuation /\ d.asset = ret.arg}

\* q is the only quote of its target (field) with the greatest ts
UniqueLatest(q, field) ==
    \A r \in quotes \ {q} : r[field] = q[field] => r.ts < q.ts

\* C2: for an INVESTMENT asset whose details have a listing (resp. token) set and
\* whose listing (resp. token) has a quote of unique maximal ts, the valuation
\* returns exactly that quote's price, unchanged, and that quote's currency.
C2_LatestPricePassedThrough ==
    ValuedCategory = "INVESTMENT" =>
        \A d \in ValuedInvestment : \A q \in quotes :
            /\ (d.listing # 0 /\ q.listing = d.listing /\ UniqueLatest(q, "listing"))
                   => ret.result = [value |-> q.price, currency |-> q.currency]
            /\ (d.token # 0 /\ q.token = d.token /\ UniqueLatest(q, "token"))
                   => ret.result = [value |-> q.price, currency |-> q.currency]

\* quotes (ts 1, 100, USD) and (ts 2, 110, USD) of the listing: the result is
\* (110, USD)
C2_Witness ==
    /\ ValuedCategory = "INVESTMENT"
    /\ \E d \in ValuedInvestment :
           /\ d.listing # 0
           /\ QuoteFilter("listing", d.listing) =
                  { [instrument |-> 0, listing |-> d.listing, token |-> 0, ts |-> 1,
                     price |-> Price(<<1, 0, 0>>), currency |-> "USD"],
                    [instrument |-> 0, listing |-> d.listing, token |-> 0, ts |-> 2,
                     price |-> Price(<<1, 1, 0>>), currency |-> "USD"] }
    /\ ret.result = [value |-> Price(<<1, 1, 0>>), currency |-> "USD"]

\* C5: an asset of category CASH, REAL_ESTATE, COLLECTIBLE or OTHER is valued
\* (null, null) in every store state, whatever quotes the catalog holds and
\* whatever detail rows are attached to the asset.
C5_OtherCategoriesNotPriced ==
    ValuedCategory \in {"CASH", "REAL_ESTATE", "COLLECTIBLE", "OTHER"}
        => ret.result = NotPriced

\* such an asset carries a stray InvestmentDetails whose listing or token is quoted
C5_Witness ==
    /\ ValuedCategory \in {"CASH", "REAL_ESTATE", "COLLECTIBLE", "OTHER"}
    /\ \E d \in ValuedInvestment : \E q \in quotes :
           \/ d.listing # 0 /\ q.listing = d.listing
           \/ d.token # 0 /\ q.token = d.token
    /\ ret.result = NotPriced

\* no quote is stored for any reference of the details row d
NoQuoteFor(d) ==
    \A q \in quotes :
        /\ ~(d.listing # 0 /\ q.listing = d.listing)
        /\ ~(d.token # 0 /\ q.token = d.token)
        /\ ~(d.instrument # 0 /\ q.instrument = d.instrument)

MetalName(m) ==
    CASE m = "GOLD" -> "Gold" [] m = "SILVER" -> "Silver"
      [] m = "PLATINUM" -> "Platinum" [] m = "PALLADIUM" -> "Palladium"

\* the COMMODITY instruments of the name the metal stands for
Commodities(m) ==
    {i \in InstrumentIds :
        instruments[i].kind = "COMMODITY" /\ instruments[i].name = MetalName(m)}

\* C7: a PRECIOUS_METAL asset is valued from the instrument-level quotes of the
\* COMMODITY instrument named after its metal (the one of lowest pk) and from no
\* other quote: (null, null), with no error, when there is no such instrument or
\* it has no instrument-level quote.
C7_MetalQuoteSource ==
    ValuedCategory = "PRECIOUS_METAL" =>
        \A d \in ValuedMetal :
            LET found == Commodities(d.metal)
                NoneQuoted(is) == \A q \in quotes : q.instrument \notin is
            IN  /\ found = {} => ret.result = NotPriced
                /\ \A i \in found :
                       (\A j \in found : i <= j) /\ NoneQuoted({i})
                           => ret.result = NotPriced
                /\ ret.result # NotPriced =>
                       \E q \in quotes :
                           q.instrument \in found /\ ret.result = MetalValue(q, d)

\* gold is valued (null, null) while the ETF named Gold and a listing are quoted
\* and the COMMODITY Gold is not
C7_Witness ==
    /\ ValuedCategory = "PRECIOUS_METAL"
    /\ \E d \in ValuedMetal :
           /\ d.metal = "GOLD"
           /\ Commodities("GOLD") # {}
           /\ \A q \in quotes : q.instrument \notin Commodities("GOLD")
    /\ \E q \in quotes :
           q.instrument # 0 /\ instruments[q.instrument].name = "Gold"
    /\ \E q \in quotes : q.listing # 0
    /\ ret.result = NotPriced

\* the quotes of the listing, of the token and of the instrument of the row d
ListingQuotes(d) == {q \in quotes : d.listing # 0 /\ q.listing = d.listing}
TokenQuotes(d) == {q \in quotes : d.token # 0 /\ q.token = d.token}
InstrumentQuotes(d) == {q \in quotes : d.instrument # 0 /\ q.instrument = d.instrument}

\* the response is (price, currency) of a quote of greatest ts among qs
PricedFromLatest(qs) ==
    \E q \in qs :
        /\ \A r \in qs : r.ts <= q.ts
        /\ ret.result = [value |-> q.price, currency |-> q.currency]

\* C8 (as stated): an investment whose listing (or token) is set but has no quote
\* is valued (null, null), even when its instrument has an instrument-level quote.
C8_NoFallbackWhenReferenceSet ==
    ValuedCategory = "INVESTMENT" =>
        \A d \in ValuedInvestment :
            /\ (d.listing # 0 /\ ListingQuotes(d) = {}) => ret.result = NotPriced
            /\ (d.token # 0 /\ TokenQuotes(d) = {}) => ret.result = NotPriced

\* C8 (amended): an INVESTMENT asset is priced from the latest quote of its listing
\* when the listing is set and quoted; else from the latest quote of its token
\* when the token is set and quoted; else from the latest instrument-level quote
\* of its instrument, also when a listing or token is set but has no quote; and
\* it is valued (null, null) only when none of the three has a quote.
C8_QuoteSource ==
    ValuedCategory = "INVESTMENT" =>
        \A d \in ValuedInvestment :
            IF ListingQuotes(d) # {} THEN PricedFromLatest(ListingQuotes(d))
            ELSE IF TokenQuotes(d) # {} THEN PricedFromLatest(TokenQuotes(d))
            ELSE IF InstrumentQuotes(d) # {} THEN PricedFromLatest(InstrumentQuotes(d))
            ELSE ret.result = NotPriced

\* a listing is set and not quoted, the instrument is quoted, and the asset is
\* priced
C8_Witness ==
    /\ ValuedCategory = "INVESTMENT"
    /\ \E d \in ValuedInvestment :
           /\ d.listing # 0
           /\ ListingQuotes(d) = {}
           /\ InstrumentQuotes(d) # {}
    /\ ret.result # NotPriced

\* no two quotes of one target share that target's latest ts with different
\* price or currency
LatestAgree ==
    \A field \in {"instrument", "listing", "token"} : \A q \in quotes, r \in quotes :
        ( /\ q[field] # 0
          /\ r[field] = q[field]
          /\ r.ts = q.ts
          /\ \A o \in quotes : o[field] = q[field] => o.ts <= q.ts )
            => (q.price = r.price /\ q.currency = r.currency)

\* a valuation follows a valuation of the same asset; no write lies between them
Revalued == IsValuation /\ IsValuation' /\ ret'.arg = ret.arg

\* C10 (as stated): in every store state two calls of market_value_for_asset on
\* the same asset, with no write between them, return the same (value, currency).
C10_Deterministic == [][Revalued => ret'.result = ret.result]_vars

\* C10 (amended): two such calls return the same (value, currency) in every store
\* state in which the quotes sharing the latest ts of a target agree on price and
\* currency; several COMMODITY instruments of the metal's name do not matter, the
\* one of lowest pk is read.
C10_DeterministicWithoutTies ==
    [][(Revalued /\ LatestAgree) => ret'.result = ret.result]_vars

\* gold is priced while two COMMODITY instruments named Gold carry different
\* quotes and no target has a tie at its latest ts
C10_Witness ==
    /\ ValuedCategory = "PRECIOUS_METAL"
    /\ LatestAgree
    /\ \E i \in Commodities("GOLD"), j \in Commodities("GOLD") :
           /\ i # j
           /\ \E q \in quotes, r \in quotes :
                  q.instrument = i /\ r.instrument = j /\ q.price # r.price
    /\ \E d \in ValuedMetal : d.metal = "GOLD"
    /\ ret.result # NotPriced

(***************************************************************************)
(* The arithmetic of value_precious_metal (SpecMetal): one gold holding and *)
(* one quote of the COMMODITY Gold, drawn from sample prices, weights and   *)
(* purities of the scales the model fields store.                           *)
(***************************************************************************)
\* Quote.price samples: 2350.00, 28.50, 1999.99, 0.01 and
\* 4000000000000000.01648791
MetalPrices ==
    { Price(<<2, 3, 5, 0>>),
      [c |-> <<2, 8, 5, 0, 0, 0, 0, 0, 0, 0>>, e |-> -8],
      [c |-> <<1, 9, 9, 9, 9, 9, 0, 0, 0, 0, 0, 0>>, e |-> -8],
      [c |-> <<1, 0, 0, 0, 0, 0, 0>>, e |-> -8],
      [c |-> <<4>> \o Zeros(15) \o <<0, 1, 6, 4, 8, 7, 9, 1>>, e |-> -8] }

\* weight_grams samples: 100.000, 10000.000, 31.103, 1.000, 0.001
MetalWeights ==
    { [c |-> <<1, 0, 0, 0, 0, 0>>, e |-> -3], [c |-> <<1>> \o Zeros(7), e |-> -3],
      [c |-> <<3, 1, 1, 0, 3>>, e |-> -3], [c |-> <<1, 0, 0, 0>>, e |-> -3],
      [c |-> <<1>>, e |-> -3] }

\* purity samples: 0.999, 1.000, 0.917, 0.585
MetalPurities ==
    { [c |-> <<9, 9, 9>>, e |-> -3], [c |-> <<1, 0, 0, 0>>, e |-> -3],
      [c |-> <<9, 1, 7>>, e |-> -3], [c |-> <<5, 8, 5>>, e |-> -3] }

MetalCurrencies == {"USD", "EUR"}

InitMetal ==
    /\ instruments = InstrumentRows
    /\ \E p \in MetalPrices, c \in MetalCurrencies :
           quotes = {[instrument |-> 2, listing |-> 0, token |-> 0, ts |-> 1,
                      price |-> p, currency |-> c]}
    /\ accounts = <<[owner |-> 1, name |-> "A"]>>
    /\ assets = (1 :> AssetRow(1, "a", "PRECIOUS_METAL", "USD"))
    /\ investment = {}
    /\ transactions = {}
    /\ \E w \in MetalWeights, pu \in MetalPurities :
           metal = {[asset |-> 1, metal |-> "GOLD", purity |-> pu,
                     weight_grams |-> w]}
    /\ ret = NoCall

NextMetal == Valuation

SpecMetal == InitMetal /\ [][NextMetal]_vars

\* n / d rounded half up to a natural number, for natural numbers n and d > 0
RoundHalfUpDiv(n, d) ==
    BigDivMod(BigAdd(BigMul(n, <<2>>), d), BigMul(d, <<2>>)).q

\* the staged formula in exact arithmetic, for a price of 8 decimal places and a
\* weight and purity of 3: round6(P / 31.1034768) in millionths, round3(weight *
\* purity) in thousandths, round2 of their product in hundredths
StagedValue(P, weight_grams, purity) ==
    LET ppg == RoundHalfUpDiv(P.c \o Zeros(5), <<3, 1, 1, 0, 3, 4, 7, 6, 8>>)
        fw  == RoundHalfUpDiv(BigMul(weight_grams.c, purity.c), <<1, 0, 0, 0>>)
    IN  [c |-> RoundHalfUpDiv(BigMul(fw, ppg), <<1>> \o Zeros(7)), e |-> -2]

\* q is the latest quote of the COMMODITY instrument read for the metal row d
MetalQuote(q, d) ==
    /\ q.instrument \in Commodities(d.metal)
    /\ \A j \in Commodities(d.metal) : q.instrument <= j
    /\ UniqueLatest(q, "instrument")

\* C3: a PRECIOUS_METAL asset whose COMMODITY instrument has a latest quote of
\* price P in currency C is valued (round2(round3(weight_grams * purity) *
\* round6(P / 31.1034768)), C), each rounding half up, for every input.
C3_StagedRounding ==
    ValuedCategory = "PRECIOUS_METAL" =>
        \A d \in ValuedMetal : \A q \in quotes :
            MetalQuote(q, d) =>
                ret.result = [value |-> StagedValue(q.price, d.weight_grams, d.purity),
                              currency |-> q.currency]

\* the holding and the quote of the worked example: gold, purity 0.999, 100 g,
\* Gold at 2350.00 USD
IsExample(q, d) ==
    /\ MetalQuote(q, d)
    /\ d.metal = "GOLD"
    /\ d.purity = [c |-> <<9, 9, 9>>, e |-> -3]
    /\ d.weight_grams = [c |-> <<1, 0, 0, 0, 0, 0>>, e |-> -3]
    /\ q.price = Price(<<2, 3, 5, 0>>)
    /\ q.currency = "USD"

\* C4 (as stated): the example yields price_per_gram = 75.555872, fine_weight =
\* 99.900 and the market value (7548.03, USD).
C4_ExampleAsStated ==
    ValuedCategory = "PRECIOUS_METAL" =>
        \A d \in ValuedMetal : \A q \in quotes :
            IsExample(q, d) =>
                /\ price_per_gram(q) = [c |-> <<7, 5, 5, 5, 5, 8, 7, 2>>, e |-> -6]
                /\ fine_weight(d) = [c |-> <<9, 9, 9, 0, 0>>, e |-> -3]
                /\ ret.result = [value |-> [c |-> <<7, 5, 4, 8, 0, 3>>, e |-> -2],
                                 currency |-> "USD"]

\* C4 (amended): the example yields price_per_gram = 75.554254, fine_weight =
\* 99.900 and the market value (7547.87, USD).
C4_Example ==
    ValuedCategory = "PRECIOUS_METAL" =>
        \A d \in ValuedMetal : \A q \in quotes :
            IsExample(q, d) =>
                /\ price_per_gram(q) = [c |-> <<7, 5, 5, 5, 4, 2, 5, 4>>, e |-> -6]
                /\ fine_weight(d) = [c |-> <<9, 9, 9, 0, 0>>, e |-> -3]
                /\ ret.result = [value |-> [c |-> <<7, 5, 4, 7, 8, 7>>, e |-> -2],
                                 currency |-> "USD"]

\* the example has been valued
C4_Witness ==
    /\ ValuedCategory = "PRECIOUS_METAL"
    /\ \E d \in ValuedMetal : \E q \in quotes : IsExample(q, d)
    /\ ret.result = [value |-> [c |-> <<7, 5, 4, 7, 8, 7>>, e |-> -2],
                     currency |-> "USD"]

(***************************************************************************)
(* market_value_for_asset on details the XOR constraint excludes            *)
(* (SpecDetached): an InvestmentDetails built in memory and attached to the *)
(* asset without validation or save, with both listing and token set or     *)
(* with neither, over a catalog that takes quotes.                          *)
(***************************************************************************)
DetachedDetails ==
    { [asset |-> 1, instrument |-> 1, listing |-> 1, token |-> 1],
      [asset |-> 1, instrument |-> 1, listing |-> 0, token |-> 0],
      [asset |-> 1, instrument |-> 0, listing |-> 0, token |-> 0] }

InitDetached ==
    /\ instruments = InstrumentRows
    /\ quotes = {}
    /\ accounts = <<[owner |-> 1, name |-> "A"]>>
    /\ assets = (1 :> AssetRow(1, "a", "INVESTMENT", "USD"))
    /\ transactions = {}
    /\ \E d \in DetachedDetails : investment = {d}
    /\ metal = {}
    /\ ret = NoCall

QuoteWrite ==
    \E i \in InstrumentInputs, l \in ListingInputs, t \in TokenInputs,
       ts \in Timestamps, pc \in QuoteInputs :
        CreateQuote(i, l, t, ts, pc[1], pc[2])

NextDetached == QuoteWrite \/ Valuation

SpecDetached == InitDetached /\ [][NextDetached]_vars

\* both listing and token set, or neither
XorViolated(d) == (d.listing # 0) = (d.token # 0)

OverviewQuotes ==
    { [instrument |-> 0, listing |-> 1, token |-> 0, ts |-> 1,
       price |-> Price(<<6, 0>>), currency |-> "EUR"],
      [instrument |-> 0, listing |-> 0, token |-> 1, ts |-> 1,
       price |-> Price(<<1, 1, 0>>), currency |-> "USD"] }

OverviewAccounts ==
    << [owner |-> 1, name |-> "B"], [owner |-> 1, name |-> "A"],
       [owner |-> 2, name |-> "A"] >>

AssetNames == {"a", "b"}

\* (amount, fee, timestamp) of the transactions posted
TxnInputs == { <<100, 0, 1>>, <<50, 1, 2>>, <<0 - 50, 0, 1>> }

InitOverview ==
    /\ instruments = InstrumentRows
    /\ quotes = OverviewQuotes
    /\ accounts = OverviewAccounts
    /\ assets = <<>>
    /\ investment = {}
    /\ metal = {}
    /\ transactions = {}
    /\ ret = NoCall

\* assets are added, renamed, moved to another account and deleted
OverviewLedgerWrite ==
    \/ \E account \in DOMAIN accounts, name \in AssetNames :
           CreateInvestmentAsset(account, name, "USD", 1, 0)
    \/ \E account \in DOMAIN accounts, name \in AssetNames :
           CreateInvestmentAsset(account, name, "EUR", 0, 1)
    \/ \E account \in DOMAIN accounts, name \in AssetNames :
           CreateOtherAsset(account, name, "OTHER", "USD")
    \/ \E pk \in AssetPks, account \in DOMAIN accounts, name \in AssetNames :
           /\ pk \in DOMAIN assets
           /\ HasInvestment(pk)
           /\ UpdateInvestmentAsset(pk, account, name, "INVESTMENT",
                                    assets[pk].currency,
                                    IF InvestmentOf(pk).listing # 0
                                    THEN "equity" ELSE "crypto",
                                    InvestmentOf(pk).listing,
                                    InvestmentOf(pk).token)
    \/ \E pk \in AssetPks, account \in DOMAIN accounts, name \in AssetNames,
          pu \in Purities, w \in Weights :
           /\ pk \in DOMAIN assets
           /\ UpdateOtherAsset(pk, account, name, assets[pk].category,
                               assets[pk].currency, "GOLD", pu, w)
    \/ \E user \in Users, pk \in AssetPks : DeleteAsset(user, pk)

TransactionWrite ==
    \/ \E user \in Users, a \in AssetPks, in \in TxnInputs :
           CreateTransaction(user, a, in[1], in[2], in[3])
    \/ \E user \in Users, a \in AssetPks, pk \in TxnPks, in \in TxnInputs :
           UpdateTransaction(user, a, pk, in[1], in[2], in[3])
    \/ \E user \in Users, a \in AssetPks, pk \in TxnPks :
           DeleteTransaction(user, a, pk)

Overview == \E user \in Users : PortfolioOverview(user)

NextOverview == OverviewLedgerWrite \/ TransactionWrite \/ Overview

SpecOverview == InitOverview /\ [][NextOverview]_vars

(***************************************************************************)
(* The reads (SpecReads): the quote lookups, market_value_for_asset and    *)
(* the overview, called in any order over a ledger of one investment asset *)
(* with a transaction while quotes are inserted.                           *)
(***************************************************************************)
InitReads ==
    /\ instruments = InstrumentRows
    /\ quotes = {}
    /\ accounts = <<[owner |-> 1, name |-> "A"]>>
    /\ assets = (1 :> AssetRow(1, "a", "INVESTMENT", "USD"))
    /\ investment = {[asset |-> 1, instrument |-> 1, listing |-> 1, token |-> 0]}
    /\ metal = {}
    /\ transactions = {[pk |-> 1, asset |-> 1, amount |-> 100, fee |-> 1,
                        timestamp |-> 1]}
    /\ ret = NoCall

NextReads == QuoteWrite \/ Lookup \/ Valuation \/ Overview

SpecReads == InitReads /\ [][NextReads]_vars

\* every table of the store
store == <<instruments, quotes, accounts, assets, investment, metal, transactions>>

\* the response r is one its operation gives on the store as it is now
Reflects(r) ==
    /\ r.op = "_latest_quote_for_listing"
           => r.result \in _latest_quote_for_listing(r.arg)
    /\ r.op = "_latest_quote_for_token"
           => r.result \in _latest_quote_for_token(r.arg)
    /\ r.op = "_latest_quote_for_instrument"
           => r.result \in _latest_quote_for_instrument(r.arg)
    /\ r.op = "market_value_for_asset"
           => r.result \in market_value_for_asset(r.arg)
    /\ r.op = "overview" => r.result \in PortfolioOverviewView(r.arg)

\* C11: a step that ends in the response of a quote lookup, of
\* market_value_for_asset or of the overview leaves every row of every table as
\* it was, and the response is computed from the store of that moment: nothing
\* is kept from an earlier call, so a quote inserted since is seen.
C11_ReadOnly ==
    [][ret'.op # "none" => (store' = store /\ Reflects(ret'))]_vars

\* a quote of a later ts has been inserted next to an older one of the listing,
\* and the valuation and the overview made since both show the later price
C11_Witness ==
    /\ \E q1, q2 \in quotes :
           q1.listing = 1 /\ q2.listing = 1 /\ q1.ts < q2.ts /\ q1.price # q2.price
           /\ \/ /\ ret.op = "market_value_for_asset"
                 /\ ret.result = MV(q2.price, q2.currency)
              \/ /\ ret.op = "overview"
                 /\ ret.arg = 1
                 /\ ret.result.accounts[1].rows[1].market_value = q2.price
    /\ transactions # {}

(***************************************************************************)
(* Properties of the overview (SpecOverview).                              *)
(***************************************************************************)
IsOverview == ret.op = "overview"

\* the account groups of the overview held, and the rows of all of them
Groups == {ret.result.accounts[g] : g \in DOMAIN ret.result.accounts}
OverviewRows == UNION {{grp.rows[i] : i \in DOMAIN grp.rows} : grp \in Groups}

\* the amount of the transaction of pk when it is attached to the asset a
AmountOn(a, pk) ==
    IF \E t \in transactions : t.pk = pk /\ t.asset = a
    THEN (CHOOSE t \in transactions : t.pk = pk /\ t.asset = a).amount
    ELSE 0

RECURSIVE AmountsUpTo(_, _)
AmountsUpTo(a, pk) == IF pk = 0 THEN 0 ELSE AmountOn(a, pk) + AmountsUpTo(a, pk - 1)

\* C12: in the overview the balance of every asset is the sum of the amounts of
\* the transactions now attached to it, 0 when it has none; no fee is
\* subtracted, and neither the timestamps nor the order of creation matter.
C12_BalanceIsSumOfAmounts ==
    IsOverview =>
        \A r \in OverviewRows : r.balance = AmountsUpTo(r.asset, MaxTxns)

\* an asset with two transactions of different timestamps, one of them with a
\* fee, shown with the sum of their amounts, next to an asset with none
C12_Witness ==
    /\ IsOverview
    /\ \E r \in OverviewRows :
           /\ r.balance = 150
           /\ \E t1, t2 \in transactions :
                  /\ t1.asset = r.asset /\ t2.asset = r.asset
                  /\ t1.timestamp < t2.timestamp /\ t2.pk < t1.pk
                  /\ t1.fee + t2.fee > 0
    /\ \E r \in OverviewRows :
           r.balance = 0 /\ \A t \in transactions : t.asset # r.asset

\* the currency codes in use
CurrencyCodes == {"USD", "EUR"}

\* the account of the user the overview was made for that a group stands for
AccountOf(grp) ==
    CHOOSE i \in DOMAIN accounts :
        accounts[i].owner = ret.arg /\ accounts[i].name = grp.name

AssetsIn(account) == {a \in DOMAIN assets : assets[a].account = account}

\* the market value of an asset: the quotes of this catalog have no ties
ValueOf(a) == CHOOSE r \in market_value_for_asset(a) : TRUE

PricedIn(account, c) ==
    {a \in AssetsIn(account) :
        ValueOf(a).value # NoDecimal /\ ValueOf(a).currency = c}

RECURSIVE SumOfBalances(_)
SumOfBalances(as) ==
    IF as = {} THEN 0
    ELSE LET a == CHOOSE a \in as : TRUE
         IN  AmountsUpTo(a, MaxTxns) + SumOfBalances(as \ {a})

RECURSIVE SumOfValues(_)
SumOfValues(as) ==
    IF as = {} THEN [c |-> <<0>>, e |-> 0]
    ELSE LET a == CHOOSE a \in as : TRUE
         IN  DecAdd(ValueOf(a).value, SumOfValues(as \ {a}))

\* a bucket of a totals dict; a missing key counts as the empty sum
BalanceBucket(d, c) == IF c \in DOMAIN d THEN d[c] ELSE 0
MarketBucket(d, c) == IF c \in DOMAIN d THEN d[c] ELSE [c |-> <<0>>, e |-> 0]

\* an account group with the two assets of the example
ExampleGroup(grp) ==
    /\ Len(grp.rows) = 2
    /\ \E i, j \in DOMAIN grp.rows :
           /\ grp.rows[i].balance = 100 /\ grp.rows[i].balance_currency = "USD"
           /\ grp.rows[i].market_value = NoDecimal
           /\ grp.rows[j].balance = 50 /\ grp.rows[j].balance_currency = "USD"
           /\ grp.rows[j].market_value = Price(<<6, 0>>)
           /\ grp.rows[j].market_currency = "EUR"

\* C13: in every account group and for every currency code c, totals_balance[c]
\* is the sum of the balances of the account's assets of asset currency c and
\* totals_market[c] the sum of the market values of the account's priced assets
\* of market currency c; the example's account gives {USD: 150} and {EUR: 60}.
C13_TotalsPerCurrency ==
    IsOverview =>
        \A grp \in Groups :
            /\ \A c \in CurrencyCodes :
                   /\ BalanceBucket(grp.totals_balance, c)
                          = SumOfBalances({a \in AssetsIn(AccountOf(grp)) :
                                              assets[a].currency = c})
                   /\ MarketBucket(grp.totals_market, c)
                          = SumOfValues(PricedIn(AccountOf(grp), c))
            /\ ExampleGroup(grp) =>
                   /\ grp.totals_balance = ("USD" :> 150)
                   /\ grp.totals_market = ("EUR" :> Price(<<6, 0>>))

\* the overview shows the example's account
C13_Witness ==
    /\ IsOverview
    /\ \E grp \in Groups :
           /\ ExampleGroup(grp)
           /\ grp.totals_balance = ("USD" :> 150)
           /\ grp.totals_market = ("EUR" :> Price(<<6, 0>>))

\* the keys of every market-value dict of the overview: per account and grand
MarketKeys ==
    UNION {DOMAIN grp.totals_market : grp \in Groups}
        \cup DOMAIN ret.result.grand_mv_totals

\* C14: in every account group the keys of totals_balance are exactly the asset
\* currencies of the account's assets, whatever their balance, and the keys of
\* totals_market exactly the market currencies of its priced assets; when no
\* asset of the user is priced in a currency, no market dict has that key.
C14_BucketKeys ==
    IsOverview =>
        /\ \A grp \in Groups :
               /\ DOMAIN grp.totals_balance
                      = {assets[a].currency : a \in AssetsIn(AccountOf(grp))}
               /\ DOMAIN grp.totals_market
                      = {ValueOf(a).currency :
                             a \in {b \in AssetsIn(AccountOf(grp)) :
                                       ValueOf(b).value # NoDecimal}}
        /\ \A c \in CurrencyCodes \cup {NoCurrency} :
               (\A a \in filter_account_owner(ret.arg) :
                    ValueOf(a).value = NoDecimal \/ ValueOf(a).currency # c)
                   => c \notin MarketKeys

\* an account whose only asset is unpriced and has no transaction (balance
\* keys {USD}, no market key) beside an account with a EUR asset priced in USD
\* (balance keys {EUR}, market keys {USD}); the grand market keys are {USD}
C14_Witness ==
    /\ IsOverview
    /\ \E grp \in Groups :
           /\ DOMAIN grp.totals_balance = {"USD"}
           /\ grp.totals_balance["USD"] = 0
           /\ DOMAIN grp.totals_market = {}
    /\ \E grp \in Groups :
           /\ DOMAIN grp.totals_balance = {"EUR"}
           /\ DOMAIN grp.totals_market = {"USD"}
    /\ DOMAIN ret.result.grand_mv_totals = {"USD"}

RECURSIVE SumOfBalanceBuckets(_, _, _)
SumOfBalanceBuckets(groups, g, c) ==
    IF g = 0 THEN 0
    ELSE BalanceBucket(groups[g].totals_balance, c)
             + SumOfBalanceBuckets(groups, g - 1, c)

RECURSIVE SumOfMarketBuckets(_, _, _)
SumOfMarketBuckets(groups, g, c) ==
    IF g = 0 THEN [c |-> <<0>>, e |-> 0]
    ELSE DecAdd(MarketBucket(groups[g].totals_market, c),
                SumOfMarketBuckets(groups, g - 1, c))

\* C15: for every currency code the grand balance total is the sum of the
\* account groups' totals_balance of that code and the grand market total the
\* sum of their totals_market; the grand key sets are the unions of the groups'.
C15_GrandTotals ==
    IsOverview =>
        LET groups == ret.result.accounts
        IN  /\ \A c \in CurrencyCodes :
                   /\ BalanceBucket(ret.result.grand_bal_totals, c)
                          = SumOfBalanceBuckets(groups, Len(groups), c)
                   /\ MarketBucket(ret.result.grand_mv_totals, c)
                          = SumOfMarketBuckets(groups, Len(groups), c)
            /\ DOMAIN ret.result.grand_bal_totals
                   = UNION {DOMAIN grp.totals_balance : grp \in Groups}
            /\ DOMAIN ret.result.grand_mv_totals
                   = UNION {DOMAIN grp.totals_market : grp \in Groups}

\* two accounts of one user with USD balances of 100 and 50, the first with a
\* market value in EUR: the grand totals are {USD: 150} and the keys {EUR}
C15_Witness ==
    /\ IsOverview
    /\ Len(ret.result.accounts) = 2
    /\ ret.result.accounts[1].totals_balance = ("USD" :> 100)
    /\ ret.result.accounts[2].totals_balance = ("USD" :> 50)
    /\ ret.result.grand_bal_totals = ("USD" :> 150)
    /\ DOMAIN ret.result.accounts[1].totals_market = {"EUR"}
    /\ DOMAIN ret.result.accounts[2].totals_market = {}
    /\ DOMAIN ret.result.grand_mv_totals = {"EUR"}

\* the groups of a context ascend strictly by account name and the rows of
\* each group ascend by asset name
Ascending(context) ==
    /\ \A g, h \in DOMAIN context.accounts :
           g < h => Rank(context.accounts[g].name) < Rank(context.accounts[h].name)
    /\ \A g \in DOMAIN context.accounts :
           \A i, j \in DOMAIN context.accounts[g].rows :
               i < j => Rank(assets[context.accounts[g].rows[i].asset].name)
                            <= Rank(assets[context.accounts[g].rows[j].asset].name)

\* the overview is opened again by the same user, nothing having been written
\* in between
OverviewRepeated ==
    IsOverview /\ ret'.op = "overview" /\ ret'.arg = ret.arg

\* C16: the overview is deterministically ordered: the groups ascend by account
\* name and the rows of a group by asset name, and opening it again over the
\* same store gives the same order, however the rows were created.
C16_DeterministicOrder ==
    [][/\ ret'.op = "overview" => Ascending(ret'.result)
       /\ OverviewRepeated => ret'.result = ret.result]_vars

(***************************************************************************)
(* The overview over a metal holding (SpecMetalOverview): gold at 2350.00, *)
(* weights of 100.000 and 10000.000 at purity 0.999, and the largest       *)
(* price, weight and purity the columns hold (no form or model validator   *)
(* bounds purity by 1).                                                    *)
(***************************************************************************)
Weight(grams) == [c |-> Strip(grams \o Zeros(3)), e |-> -3]

\* 9000000000000000.00000000, 999999999.999 and 999.999
LargePrice == [c |-> <<9>> \o Zeros(23), e |-> -8]
LargeWeight == [c |-> [i \in 1..12 |-> 9], e |-> -3]
LargePurity == [c |-> [i \in 1..6 |-> 9], e |-> -3]

InitMetalOverview ==
    /\ instruments = InstrumentRows
    /\ \E p \in {Price(<<2, 3, 5, 0>>), LargePrice}, c \in MetalCurrencies :
           quotes = {[instrument |-> 2, listing |-> 0, token |-> 0, ts |-> 1,
                      price |-> p, currency |-> c]}
    /\ accounts = <<[owner |-> 1, name |-> "A"]>>
    /\ assets = (1 :> AssetRow(1, "a", "PRECIOUS_METAL", "USD"))
                    @@ (2 :> AssetRow(1, "b", "OTHER", "USD"))
    /\ investment = {}
    /\ \E w \in {Weight(<<1, 0, 0>>), Weight(<<1>> \o Zeros(4)), LargeWeight},
          pu \in Purities \cup {LargePurity} :
           metal = {[asset |-> 1, metal |-> "GOLD", purity |-> pu,
                     weight_grams |-> w]}
    /\ transactions = {[pk |-> 1, asset |-> 2, amount |-> 100, fee |-> 0,
                        timestamp |-> 1]}
    /\ ret = NoCall

NextMetalOverview == Valuation \/ Overview

SpecMetalOverview == InitMetalOverview /\ [][NextMetalOverview]_vars

\* the context has exactly one row for every asset of the user, and a row
\* without market value has no market currency either
OneRowPerAsset(user, context) ==
    LET rows == UNION {{<<g, i>> : i \in DOMAIN context.accounts[g].rows} :
                          g \in DOMAIN context.accounts}
        At(p) == context.accounts[p[1]].rows[p[2]]
    IN  /\ \A a \in filter_account_owner(user) :
               Cardinality({p \in rows : At(p).asset = a}) = 1
        /\ \A p \in rows : At(p).asset \in filter_account_owner(user)
        /\ \A p \in rows :
               /\ market_value_for_asset(At(p).asset) = {NotPriced}
                      => (At(p).market_value = NoDecimal
                          /\ At(p).market_currency = NoCurrency)
               /\ At(p).market_value = NoDecimal
                      <=> At(p).market_currency = NoCurrency

\* C17: in every store state the overview completes without error and holds
\* exactly one row for every asset of the user, however many transactions the
\* asset has; an unpriced asset is shown with no market value and no market
\* currency beside the other rows.
C17_OverviewCompletes ==
    IsOverview =>
        /\ ~Raised(ret.result)
        /\ OneRowPerAsset(ret.arg, ret.result)

(***************************************************************************)
(* The overview of one user beside the ledger of another (SpecIsolation).  *)
(***************************************************************************)
\* the rows of the user: the accounts owned, the assets in them, and the
\* detail rows and transactions of these assets
UserData(user) ==
    LET owned == {a \in DOMAIN assets : OwnedBy(user, a)}
    IN  [accounts |-> [i \in {k \in DOMAIN accounts : accounts[k].owner = user}
                          |-> accounts[i]],
         assets |-> [a \in owned |-> assets[a]],
         investment |-> {d \in investment : d.asset \in owned},
         metal |-> {d \in metal : d.asset \in owned},
         transactions |-> {t \in transactions : t.asset \in owned}]

Catalog == <<instruments, quotes>>

\* every row of the overview held is an asset in an account of the user asked
OnlyOwnRows ==
    IsOverview =>
        \A r \in OverviewRows :
            /\ r.asset \in DOMAIN assets
            /\ accounts[assets[r.asset].account].owner = ret.arg

\* user 1 has an account; an account of user 2 is created, assets are added
\* to, moved between and deleted from the accounts, and transactions posted;
\* the catalog holds no quote
InitIsolation ==
    /\ instruments = InstrumentRows
    /\ quotes = {}
    /\ accounts = <<[owner |-> 1, name |-> "A"]>>
    /\ assets = <<>>
    /\ investment = {}
    /\ metal = {}
    /\ transactions = {}
    /\ ret = NoCall

IsolationWrite ==
    \/ \E user \in Users : CreateAccount(user, "A")
    \/ \E account \in DOMAIN accounts :
           CreateInvestmentAsset(account, "a", "USD", 1, 0)
    \/ \E account \in DOMAIN accounts :
           CreateOtherAsset(account, "b", "OTHER", "USD")
    \/ \E pk \in AssetPks, account \in DOMAIN accounts, pu \in Purities, w \in Weights :
           /\ pk \in DOMAIN assets
           /\ UpdateOtherAsset(pk, account, assets[pk].name, assets[pk].category,
                               assets[pk].currency, "GOLD", pu, w)
    \/ \E user \in Users, pk \in AssetPks : DeleteAsset(user, pk)
    \/ \E user \in Users, a \in AssetPks : CreateTransaction(user, a, 100, 0, 1)
    \/ \E user \in Users, a \in AssetPks, pk \in TxnPks :
           UpdateTransaction(user, a, pk, 50, 1, 2)
    \/ \E user \in Users, a \in AssetPks, pk \in TxnPks :
           DeleteTransaction(user, a, pk)

NextIsolation == IsolationWrite \/ Overview

SpecIsolation == InitIsolation /\ [][NextIsolation]_vars

\* C18: the overview of a user holds only assets in accounts of that user, and
\* a step that leaves the rows of the user and the catalog as they were (a
\* write on the accounts, assets, details or transactions of another user)
\* leaves the responses the overview of the user can give as they were.
C18_OwnerIsolation ==
    /\ []OnlyOwnRows
    /\ [][\A user \in Users :
             (UserData(user)' = UserData(user) /\ Catalog' = Catalog)
                 => PortfolioOverviewView(user)' = PortfolioOverviewView(user)]_vars

\* the overview of user 1 showing its one asset while user 2 holds an asset
\* with a transaction
C18_Witness ==
    /\ IsOverview
    /\ ret.arg = 1
    /\ Cardinality(OverviewRows) = 1
    /\ \E t \in transactions : OwnedBy(2, t.asset)

(***************************************************************************)
(* The writes of InvestmentDetails rows (SpecInvestment): the model's save *)
(* (seed_portfolio and any code that builds a row), the asset forms of the *)
(* site on create and on edit, and the inline of AssetAdmin.  Each write   *)
(* answers with the row it stored or with the error it raised.             *)
(***************************************************************************)
ValidationError == [raised |-> "ValidationError"]
IntegrityError == [raised |-> "IntegrityError"]

\* what a write was given: the asset, the instrument put on the row (0 when
\* none is: the forms have no such field), the listing, the token and the mode
\* of the investment form ("" where there is none)
Posted(asset, instrument, listing, token, mode) ==
    [asset |-> asset, instrument |-> instrument, listing |-> listing,
     token |-> token, mode |-> mode]

\* InvestmentDetails.save on the row of the asset, a new one when it has none,
\* after instrument, listing and token were assigned: full_clean, then the row
\* is stored
InvestmentDetails_save(asset_pk, instrument, listing, token) ==
    LET row == InvestmentDetails_clean(
                   [asset |-> asset_pk, instrument |-> instrument,
                    listing |-> listing, token |-> token])
    IN  /\ asset_pk \in DOMAIN assets
        /\ instrument \in InstrumentIds \cup {0}
        /\ listing \in ListingIds \cup {0}
        /\ token \in TokenIds \cup {0}
        /\ IF row = Invalid
           THEN /\ investment' = investment
                /\ ret' = [op |-> "save",
                           arg |-> Posted(asset_pk, instrument, listing, token, ""),
                           result |-> ValidationError]
           ELSE /\ investment' = {d \in investment : d.asset # asset_pk} \cup {row}
                /\ ret' = [op |-> "save",
                           arg |-> Posted(asset_pk, instrument, listing, token, ""),
                           result |-> row]
        /\ UNCHANGED <<instruments, quotes, accounts, assets, metal, transactions>>

\* AssetCreateWithCategoryView.post for INVESTMENT: both forms are validated
\* (the model form runs InvestmentDetails.clean on the new row), then
\* asset.save() is refused by the type column, which the base form does not
\* fill, before any detail row is saved
AssetCreateWithCategoryView_post(mode, listing, token) ==
    LET cleaned == InvestmentDetailsForm_clean(mode, listing, token)
        valid   == /\ cleaned # Invalid
                   /\ InvestmentDetails_clean(
                          [asset |-> 0, instrument |-> 0,
                           listing |-> cleaned.listing, token |-> cleaned.token])
                        # Invalid
    IN  /\ listing \in ListingIds \cup {0}
        /\ token \in TokenIds \cup {0}
        /\ ret' = [op |-> "create", arg |-> Posted(0, 0, listing, token, mode),
                   result |-> IF valid THEN IntegrityError ELSE ValidationError]
        /\ UNCHANGED <<instruments, quotes, accounts, assets, investment, metal,
                       transactions>>

\* AssetAdmin's add view with the InvestmentDetails inline filled in: the
\* inline's model form has the fields listing and token and runs
\* InvestmentDetails.clean; nothing is saved unless every form is valid
AssetAdmin_add(account, name, currency, listing, token) ==
    LET pk  == NextPk
        row == InvestmentDetails_clean(
                   [asset |-> pk, instrument |-> 0,
                    listing |-> listing, token |-> token])
    IN  /\ AssetPks \ DOMAIN assets # {}
        /\ account \in DOMAIN accounts
        /\ listing \in ListingIds \cup {0}
        /\ token \in TokenIds \cup {0}
        /\ IF row = Invalid
           THEN /\ UNCHANGED <<assets, investment>>
                /\ ret' = [op |-> "add", arg |-> Posted(pk, 0, listing, token, ""),
                           result |-> ValidationError]
           ELSE /\ assets' = (pk :> AssetRow(account, name, "INVESTMENT", currency))
                                 @@ assets
                /\ investment' = investment \cup {row}
                /\ ret' = [op |-> "add", arg |-> Posted(pk, 0, listing, token, ""),
                           result |-> row]
        /\ UNCHANGED <<instruments, quotes, accounts, metal, transactions>>

\* AssetUpdateView.post on an INVESTMENT asset, the base form posted as the
\* asset is: the investment form is bound to the asset's row, and both forms are
\* saved when both are valid
AssetUpdateView_post(pk, mode, listing, token) ==
    LET cleaned == InvestmentDetailsForm_clean(mode, listing, token)
        old     == InvestmentOf(pk)
        row     == IF cleaned = Invalid THEN Invalid
                   ELSE InvestmentDetails_clean(
                            [old EXCEPT !.listing = cleaned.listing,
                                        !.token = cleaned.token])
    IN  /\ pk \in DOMAIN assets
        /\ assets[pk].category = "INVESTMENT"
        /\ HasInvestment(pk)
        /\ listing \in ListingIds \cup {0}
        /\ token \in TokenIds \cup {0}
        /\ IF row = Invalid
           THEN /\ investment' = investment
                /\ ret' = [op |-> "update", arg |-> Posted(pk, 0, listing, token, mode),
                           result |-> ValidationError]
           ELSE /\ investment' = (investment \ {old}) \cup {row}
                /\ ret' = [op |-> "update", arg |-> Posted(pk, 0, listing, token, mode),
                           result |-> row]
        /\ UNCHANGED <<instruments, quotes, accounts, assets, metal, transactions>>

\* an account with one INVESTMENT asset that has no detail row yet
InitInvestment ==
    /\ instruments = InstrumentRows
    /\ quotes = {}
    /\ accounts = <<[owner |-> 1, name |-> "A"]>>
    /\ assets = (1 :> AssetRow(1, "a", "INVESTMENT", "USD"))
    /\ investment = {}
    /\ metal = {}
    /\ transactions = {}
    /\ ret = NoCall

\* the modes posted: the two choices, and none
PostedModes == Modes \cup {""}

\* the listings posted to the writes of InvestmentDetails: none, or any listing
ListingChoices == 0..Len(ListingInstrument)

InvestmentWrite ==
    \/ \E a \in AssetPks, i \in InstrumentInputs, l \in ListingChoices,
          t \in TokenInputs : InvestmentDetails_save(a, i, l, t)
    \/ \E m \in PostedModes, l \in ListingChoices, t \in TokenInputs :
           AssetCreateWithCategoryView_post(m, l, t)
    \/ \E l \in ListingChoices, t \in TokenInputs : AssetAdmin_add(1, "b", "USD", l, t)
    \/ \E a \in AssetPks, m \in PostedModes, l \in ListingChoices, t \in TokenInputs :
           AssetUpdateView_post(a, m, l, t)

NextInvestment == InvestmentWrite

SpecInvestment == InitInvestment /\ [][NextInvestment]_vars

IsWrite(r) == r.op \in {"save", "create", "add", "update"}

\* the write held by r gave both a listing and a token, or neither
BothOrNeither(r) == (r.arg.listing # 0) = (r.arg.token # 0)

ExactlyOneTarget == \A d \in investment : (d.listing # 0) # (d.token # 0)

\* C19: every InvestmentDetails row stored has exactly one of listing and
\* token, and a write (model save, admin inline, the site's form on create or
\* on edit) that gives both or neither answers with a validation error and
\* leaves the stored rows as they were.
C19_ExactlyOneTarget ==
    /\ []ExactlyOneTarget
    /\ [][(IsWrite(ret') /\ BothOrNeither(ret'))
              => (ret'.result = ValidationError /\ investment' = investment)]_vars

\* a model save giving both a listing and a token was refused while the rows
\* of two assets are stored
C19_Witness ==
    /\ ret.op = "save"
    /\ ret.arg.listing # 0 /\ ret.arg.token # 0
    /\ ret.result = ValidationError
    /\ Cardinality(investment) = 2

\* the instrument of the listing or token of a row with exactly one of them
DerivedInstrument(d) ==
    IF d.listing # 0 THEN ListingInstrument[d.listing] ELSE TokenInstrument[d.token]

InstrumentDerived == \A d \in investment : d.instrument = DerivedInstrument(d)

\* the write held by r gave an instrument other than the one of its target
Mismatching(r) ==
    /\ ~BothOrNeither(r)
    /\ r.arg.instrument # 0
    /\ r.arg.instrument # DerivedInstrument(r.arg)

\* C20: the instrument stored on every InvestmentDetails row is the instrument
\* of its listing or token; a successful write answers with such a row, and a
\* write that gives another instrument stores no row.
C20_InstrumentDerived ==
    /\ []InstrumentDerived
    /\ [][IsWrite(ret') =>
              /\ ("raised" \notin DOMAIN ret'.result
                     => /\ ret'.result \in investment'
                        /\ ret'.result.instrument = DerivedInstrument(ret'.result))
              /\ Mismatching(ret')
                     => (ret'.result = ValidationError /\ investment' = investment)]_vars

\* a model save that gave instrument 2 with a listing of instrument 1 was
\* refused, and the row of the asset still holds instrument 1
C20_Witness ==
    /\ ret.op = "save"
    /\ ret.arg.instrument = 2 /\ ret.arg.listing = 1 /\ ret.arg.token = 0
    /\ ret.result = ValidationError
    /\ \E d \in investment : d.asset = ret.arg.asset /\ d.instrument = 1

\* the write held by r replaces the listing of the stored row of its asset by
\* another listing, with no token, the instrument of the row left as stored
ReplacesListing(r) ==
    /\ r.op \in {"save", "update"}
    /\ HasInvestment(r.arg.asset)
    /\ r.op = "save" => r.arg.instrument = InvestmentOf(r.arg.asset).instrument
    /\ r.op = "update" => r.arg.mode = "equity"
    /\ r.arg.listing # 0 /\ r.arg.token = 0
    /\ InvestmentOf(r.arg.asset).listing \notin {0, r.arg.listing}

\* C23: a write that replaces the listing of a stored InvestmentDetails row by
\* a listing of whatever instrument, with no token, succeeds, and the row is
\* then stored with the new listing and the instrument of that listing.
C23_Rederived ==
    [][ReplacesListing(ret') =>
           /\ ret'.result # ValidationError
           /\ \E d \in investment' :
                  /\ d.asset = ret'.arg.asset
                  /\ d.listing = ret'.arg.listing
                  /\ d.instrument = ListingInstrument[ret'.arg.listing]]_vars


(***************************************************************************)
(* The writes of Quote rows (SpecQuotes): QuoteAdmin's add view, whose row *)
(* the check constraint accepts or refuses, and upsert_quote of            *)
(* seed_catalog's sample quotes.  Each write answers with the row it       *)
(* stored, with the error raised, or with nothing.                         *)
(***************************************************************************)
QuoteRow(instrument, listing, token, ts, price, currency) ==
    [instrument |-> instrument, listing |-> listing, token |-> token,
     ts |-> ts, price |-> price, currency |-> currency]

\* QuoteAdmin add: the row is inserted unless quote_exactly_one_target refuses
\* it (the model form reports the constraint where Django validates
\* constraints, the database raises otherwise)
QuoteAdmin_add(instrument, listing, token, ts, price, currency) ==
    LET q == QuoteRow(instrument, listing, token, ts, price, currency)
    IN  /\ Cardinality(quotes) < MaxQuotes
        /\ instrument \in InstrumentIds \cup {0}
        /\ listing \in ListingIds \cup {0}
        /\ token \in TokenIds \cup {0}
        /\ IF quote_exactly_one_target(q)
           THEN /\ quotes' = quotes \cup {q}
                /\ ret' = [op |-> "add_quote", arg |-> q, result |-> q]
           ELSE /\ quotes' = quotes
                /\ \E error \in {ValidationError, IntegrityError} :
                       ret' = [op |-> "add_quote", arg |-> q, result |-> error]
        /\ UNCHANGED <<instruments, accounts, assets, investment, metal, transactions>>

\* sum(targets) of upsert_quote
targets(q) ==
    (IF q.instrument # 0 THEN 1 ELSE 0) + (IF q.listing # 0 THEN 1 ELSE 0)
        + (IF q.token # 0 THEN 1 ELSE 0)

\* None, the return value of upsert_quote
None == [none |-> TRUE]

\* _seed_sample_quotes.upsert_quote at the time now: nothing is done unless
\* exactly one target is given; get_or_create looks the row up by its targets
\* and ts, and inserts it with the price and currency when there is none
upsert_quote(instrument, listing, token, now, price, currency) ==
    LET q == QuoteRow(instrument, listing, token, now, price, currency)
        found == {r \in quotes : /\ r.instrument = instrument /\ r.listing = listing
                                 /\ r.token = token /\ r.ts = now}
    IN  /\ instrument \in InstrumentIds \cup {0}
        /\ listing \in ListingIds \cup {0}
        /\ token \in TokenIds \cup {0}
        /\ (found = {} /\ targets(q) = 1) => Cardinality(quotes) < MaxQuotes
        /\ quotes' = IF targets(q) # 1 \/ found # {} THEN quotes ELSE quotes \cup {q}
        /\ ret' = [op |-> "upsert_quote", arg |-> q, result |-> None]
        /\ UNCHANGED <<instruments, accounts, assets, investment, metal, transactions>>

InitQuotes ==
    /\ instruments = InstrumentRows
    /\ quotes = {}
    /\ accounts = <<>>
    /\ assets = <<>>
    /\ investment = {}
    /\ metal = {}
    /\ transactions = {}
    /\ ret = NoCall

NextQuotes ==
    \/ \E i \in InstrumentInputs, l \in ListingInputs, t \in TokenInputs,
          ts \in Timestamps, pc \in QuoteInputs :
           QuoteAdmin_add(i, l, t, ts, pc[1], pc[2])
    \/ \E i \in InstrumentInputs, l \in ListingInputs, t \in TokenInputs,
          now \in Timestamps, pc \in QuoteInputs :
           upsert_quote(i, l, t, now, pc[1], pc[2])

SpecQuotes == InitQuotes /\ [][NextQuotes]_vars

IsQuoteWrite(r) == r.op \in {"add_quote", "upsert_quote"}

ExactlyOneQuoteTarget == \A q \in quotes : targets(q) = 1

\* C21: every Quote row stored targets exactly one of instrument, listing and
\* token, and an attempt to create a quote with no target or with several,
\* in the admin or through upsert_quote of the sample quotes, stores no row.
C21_QuoteExactlyOneTarget ==
    /\ []ExactlyOneQuoteTarget
    /\ [][(IsQuoteWrite(ret') /\ targets(ret'.arg) # 1) => quotes' = quotes]_vars

\* upsert_quote given a listing and a token returned without a row, beside a
\* stored quote
C21_Witness ==
    /\ ret.op = "upsert_quote"
    /\ ret.arg.listing # 0 /\ ret.arg.token # 0
    /\ quotes # {}
    /\ ret.arg \notin quotes

(***************************************************************************)
(* The detail row of an asset and its category (Spec): assets are added    *)
(* with the detail row of their category and edited through               *)
(* AssetUpdateView, whose base form posts the category as well.            *)
(***************************************************************************)
\* C22: after any sequence of asset creations and edits the detail row of every
\* asset is the one of its category: an INVESTMENT asset has an
\* InvestmentDetails row and no PreciousMetalDetails, a PRECIOUS_METAL asset a
\* PreciousMetalDetails row and no InvestmentDetails, and an asset of another
\* category has neither.
C22_DetailOfCategory ==
    \A a \in DOMAIN assets :
        /\ HasInvestment(a) <=> assets[a].category = "INVESTMENT"
        /\ HasMetal(a) <=> assets[a].category = "PRECIOUS_METAL"


(***************************************************************************)
(* portfolio/management/commands/seed_portfolio.py.  The command is run    *)
(* for a user at an instant of the clock; each run is a separate process,  *)
(* so the clock of a run is later than every timestamp stored before it.   *)
(* The taxonomy (AssetType) and the detail rows no valuation reads are not *)
(* part of the store.                                                      *)
(***************************************************************************)
\* the runs the clock is followed for
MaxRuns == 3
Clock == 1..MaxRuns

\* seed_demo_accounts: the names ensured, in this order
DemoAccounts == <<"Brokerage", "Bank", "Crypto Wallet">>

\* seed_demo_assets: the assets ensured, in this order, with the listing or the
\* token looked up in the catalog (AAPL@XNAS and IVV@XNYS are the listings 1 and
\* 2, ETH@ETH is token 1, USDC@ETH is not in the catalog) and the amount given to
\* add_txn (0: add_txn is not called)
DemoAssets ==
    << [account |-> "Brokerage", name |-> "Apple Inc. Position",
        category |-> "INVESTMENT", currency |-> "USD", listing |-> 1, token |-> 0,
        amount |-> 10000],
       [account |-> "Brokerage", name |-> "S&P 500 ETF",
        category |-> "INVESTMENT", currency |-> "USD", listing |-> 2, token |-> 0,
        amount |-> 5000],
       [account |-> "Crypto Wallet", name |-> "Ethereum",
        category |-> "INVESTMENT", currency |-> "USD", listing |-> 0, token |-> 1,
        amount |-> 2500],
       [account |-> "Crypto Wallet", name |-> "USDC (Ethereum)",
        category |-> "INVESTMENT", currency |-> "USD", listing |-> 0, token |-> 2,
        amount |-> 1500],
       [account |-> "Bank", name |-> "Main Checking",
        category |-> "CASH", currency |-> "USD", listing |-> 0, token |-> 0,
        amount |-> 3000],
       [account |-> "Brokerage", name |-> "Apartment Barcelona",
        category |-> "REAL_ESTATE", currency |-> "EUR", listing |-> 0, token |-> 0,
        amount |-> 250000],
       [account |-> "Brokerage", name |-> "Gold Bars",
        category |-> "PRECIOUS_METAL", currency |-> "USD", listing |-> 0,
        token |-> 0, amount |-> 6500],
       [account |-> "Brokerage", name |-> "Art Print",
        category |-> "COLLECTIBLE", currency |-> "USD", listing |-> 0, token |-> 0,
        amount |-> 1200],
       [account |-> "Brokerage", name |-> "Miscellaneous",
        category |-> "OTHER", currency |-> "USD", listing |-> 0, token |-> 0,
        amount |-> 0] >>

\* get_listing / get_token: .first() of the rows of the catalog, None (FALSE)
\* when there is none
get_listing(l) == l \in ListingIds
get_token(t) == t \in TokenIds

\* seed_demo_accounts: Account.objects.get_or_create(owner=user, name=name) for
\* each name; the table after it
seed_demo_accounts(user) ==
    LET Missing(name) ==
            \A i \in DOMAIN accounts :
                ~(accounts[i].owner = user /\ accounts[i].name = name)
        missing == SelectSeq(DemoAccounts, Missing)
    IN  accounts \o [i \in 1..Len(missing) |-> [owner |-> user, name |-> missing[i]]]

\* the pk an AutoField gives to the next row of a table with these pks
AutoPk(pks) ==
    IF pks = {} THEN 1
    ELSE 1 + CHOOSE pk \in pks : \A other \in pks : other <= pk

\* add_txn: Transaction.objects.get_or_create(asset=asset,
\* timestamp=timezone.now(), amount=amount, memo=memo); the table after it
add_txn(txns, asset, amount, now) ==
    IF \E t \in txns : t.asset = asset /\ t.timestamp = now /\ t.amount = amount
    THEN txns
    ELSE txns \cup {[pk |-> AutoPk({t.pk : t \in txns}), asset |-> asset,
                     amount |-> amount, fee |-> 0, timestamp |-> now]}

\* seed_demo_assets from its i-th asset on, on the tables st: an investment
\* whose listing or token is not found is skipped; Asset.objects.get_or_create
\* looks the asset up by account, name and category; the detail row is looked up
\* by asset, and inv.save() cleans the investment row again
RECURSIVE seed_demo_assets(_, _, _, _, _)
seed_demo_assets(user, accs, now, i, st) ==
    IF i > Len(DemoAssets) \/ st.raised THEN st
    ELSE
    LET demo    == DemoAssets[i]
        account == CHOOSE k \in DOMAIN accs :
                       accs[k].owner = user /\ accs[k].name = demo.account
        found   == {pk \in DOMAIN st.assets :
                       /\ st.assets[pk].account = account
                       /\ st.assets[pk].name = demo.name
                       /\ st.assets[pk].category = demo.category}
        asset   == IF found # {} THEN CHOOSE pk \in found : TRUE
                   ELSE AutoPk(DOMAIN st.assets)
        as      == IF found # {} THEN st.assets
                   ELSE (asset :> AssetRow(account, demo.name, demo.category,
                                           demo.currency)) @@ st.assets
        stored  == {d \in st.investment : d.asset = asset}
        inv     == InvestmentDetails_clean(
                       IF stored # {} THEN CHOOSE d \in stored : TRUE
                       ELSE [asset |-> asset, instrument |-> 0,
                             listing |-> demo.listing, token |-> demo.token])
        gold    == [asset |-> asset, metal |-> "GOLD",
                    purity |-> [c |-> <<9, 9, 9>>, e |-> -3],
                    weight_grams |-> [c |-> <<1, 0, 0, 0, 0, 0>>, e |-> -3]]
        txns    == IF demo.amount = 0 THEN st.transactions
                   ELSE add_txn(st.transactions, asset, demo.amount, now)
    IN  IF demo.category = "INVESTMENT"
        THEN IF (demo.listing # 0 /\ ~get_listing(demo.listing))
                    \/ (demo.token # 0 /\ ~get_token(demo.token))
             THEN seed_demo_assets(user, accs, now, i + 1, st)
             ELSE IF inv = Invalid
             THEN [st EXCEPT !.raised = TRUE]
             ELSE seed_demo_assets(user, accs, now, i + 1,
                      [st EXCEPT !.assets = as,
                                 !.investment = (st.investment \ stored) \cup {inv},
                                 !.transactions = txns,
                                 !.ensured = st.ensured + 1])
        ELSE seed_demo_assets(user, accs, now, i + 1,
                 [st EXCEPT !.assets = as,
                            !.metal = IF demo.category = "PRECIOUS_METAL"
                                             /\ \A d \in st.metal : d.asset # asset
                                      THEN st.metal \cup {gold} ELSE st.metal,
                            !.transactions = txns,
                            !.ensured = st.ensured + 1])

\* Command.handle for an existing user, under transaction.atomic: the accounts
\* and then the assets are ensured; an exception leaves the store as it was
seed_portfolio(user, now) ==
    /\ \A t \in transactions : t.timestamp < now
    /\ \E st \in {seed_demo_assets(user, seed_demo_accounts(user), now, 1,
                      [assets |-> assets, investment |-> investment,
                       metal |-> metal, transactions |-> transactions,
                       ensured |-> 0, raised |-> FALSE])} :
           IF st.raised
           THEN /\ ret' = [op |-> "seed_portfolio",
                           arg |-> [user |-> user, now |-> now],
                           result |-> ValidationError]
                /\ UNCHANGED <<accounts, assets, investment, metal, transactions>>
           ELSE /\ accounts' = seed_demo_accounts(user)
                /\ assets' = st.assets
                /\ investment' = st.investment
                /\ metal' = st.metal
                /\ transactions' = st.transactions
                /\ ret' = [op |-> "seed_portfolio",
                           arg |-> [user |-> user, now |-> now],
                           result |-> st.ensured]
    /\ UNCHANGED <<instruments, quotes>>

\* the catalog is seeded before or between the runs
NextSeed ==
    \/ CreateInstrument
    \/ \E user \in Users, now \in Clock : seed_portfolio(user, now)

SpecSeed == Init /\ [][NextSeed]_vars

\* C24: a run of seed_portfolio that follows a run for the same user leaves the
\* accounts, assets, detail rows and transactions as the first run left them, and
\* with them the balance of every asset.
C24_Idempotent ==
    [][(/\ ret.op = "seed_portfolio"
        /\ ret'.op = "seed_portfolio"
        /\ ret'.arg.user = ret.arg.user)
       => /\ store' = store
          /\ \A a \in DOMAIN assets : balance(a)' = balance(a)]_vars


(***************************************************************************)
(* One overview computed while other requests insert quotes.  The request  *)
(* evaluates its queryset and then values the assets one by one, one quote *)
(* lookup after the other; each statement reads what is committed when it  *)
(* runs (read committed), so an insertion committed between two lookups is *)
(* seen by the second.  While the request runs, ret holds its position:    *)
(* the assets fetched, the rows enriched so far and, for the properties,   *)
(* the states the Quote table went through since the request began.        *)
(***************************************************************************)
Running == ret.op = "get_context_data"

\* assets = list(self.get_queryset())
OverviewBegin(user) ==
    /\ ~Running
    /\ \E s \in get_queryset(user) :
           ret' = [op |-> "get_context_data",
                   arg |-> [user |-> user, assets |-> s, instants |-> <<quotes>>],
                   result |-> <<>>]
    /\ UNCHANGED store

\* mv, mv_ccy = market_value_for_asset(a); enriched.append((a, mv, mv_ccy)); an
\* exception ends the request
OverviewValue ==
    /\ Running
    /\ Len(ret.result) < Len(ret.arg.assets)
    /\ \E mv \in market_value_for_asset(ret.arg.assets[Len(ret.result) + 1]) :
           ret' = IF Raised(mv)
                  THEN [op |-> "PortfolioOverviewView", arg |-> ret.arg, result |-> mv]
                  ELSE [ret EXCEPT !.result = Append(@, mv)]
    /\ UNCHANGED store

\* the rest of get_context_data, once every asset is valued
OverviewEnd ==
    /\ Running
    /\ Len(ret.result) = Len(ret.arg.assets)
    /\ LET s   == ret.arg.assets
           mvs == [a \in {s[k] : k \in DOMAIN s} |->
                      ret.result[CHOOSE k \in DOMAIN s : s[k] = a]]
       IN  ret' = [op |-> "PortfolioOverviewView",
                   arg |-> ret.arg,
                   result |-> get_context_data(s, mvs)]
    /\ UNCHANGED store

\* another request commits a Quote row (QuoteAdmin, seed_catalog)
ConcurrentQuote(instrument, listing, token, ts, price, currency) ==
    LET q == QuoteRow(instrument, listing, token, ts, price, currency)
    IN  /\ Cardinality(quotes) < MaxQuotes
        /\ instrument \in InstrumentIds \cup {0}
        /\ listing \in ListingIds \cup {0}
        /\ token \in TokenIds \cup {0}
        /\ quote_exactly_one_target(q)
        /\ q \notin quotes
        /\ quotes' = quotes \cup {q}
        /\ ret' = IF Running
                  THEN [ret EXCEPT !.arg.instants = Append(@, quotes \cup {q})]
                  ELSE ret
        /\ UNCHANGED <<instruments, accounts, assets, investment, metal, transactions>>

\* an account of user 1 with two investment assets: "a" on listing 1, "b" on
\* listing 1 or on token 1
InitConcurrent ==
    /\ instruments = <<InstrumentRows[1]>>
    /\ quotes = {}
    /\ accounts = <<[owner |-> 1, name |-> "A"]>>
    /\ assets = <<AssetRow(1, "a", "INVESTMENT", "USD"),
                  AssetRow(1, "b", "INVESTMENT", "USD")>>
    /\ \E d \in {[listing |-> 1, token |-> 0], [listing |-> 0, token |-> 1]} :
           investment =
               {InvestmentDetails_clean([asset |-> 1, instrument |-> 0,
                                         listing |-> 1, token |-> 0]),
                InvestmentDetails_clean([asset |-> 2, instrument |-> 0,
                                         listing |-> d.listing, token |-> d.token])}
    /\ metal = {}
    /\ transactions = {}
    /\ ret = NoCall

NextConcurrent ==
    \/ OverviewBegin(1)
    \/ OverviewValue
    \/ OverviewEnd
    \/ \E i \in InstrumentInputs, l \in ListingInputs, t \in TokenInputs,
          ts \in Timestamps, pc \in QuoteInputs :
           ConcurrentQuote(i, l, t, ts, pc[1], pc[2])

SpecConcurrent == InitConcurrent /\ [][NextConcurrent]_vars

\* the overview of the request has been answered with a context
Answered == ret.op = "PortfolioOverviewView" /\ ~Raised(ret.result)

LatestIn(rows) == {q \in rows : \A r \in rows : r.ts <= q.ts}

\* the valuations of the investment asset a when the Quote table holds qs: the
\* price and currency of a latest quote of its listing, else of its token, else
\* of its instrument
ValuationAt(qs, a) ==
    LET d  == InvestmentOf(a)
        ql == {q \in qs : d.listing # 0 /\ q.listing = d.listing}
        qt == {q \in qs : d.token # 0 /\ q.token = d.token}
        qi == {q \in qs : q.instrument = d.instrument}
        Values(rows) == {MV(q.price, q.currency) : q \in LatestIn(rows)}
    IN  IF ql # {} THEN Values(ql)
        ELSE IF qt # {} THEN Values(qt)
        ELSE IF qi # {} THEN Values(qi)
        ELSE {NotPriced}

RowValue(row) == MV(row.market_value, row.market_currency)

\* the rows of the overview answered on the same listing show one market value
SameListingSameValue ==
    \A r1, r2 \in OverviewRows :
        (/\ InvestmentOf(r1.asset).listing # 0
         /\ InvestmentOf(r1.asset).listing = InvestmentOf(r2.asset).listing)
        => RowValue(r1) = RowValue(r2)

NoTies(qs) ==
    \A field \in {"instrument", "listing", "token"} :
        \A q1, q2 \in qs :
            (/\ q1[field] # 0
             /\ q1[field] = q2[field]
             /\ q1 \in LatestIn({q \in qs : q[field] = q1[field]})
             /\ q2 \in LatestIn({q \in qs : q[field] = q1[field]}))
            => MV(q1.price, q1.currency) = MV(q2.price, q2.currency)

NextAppend == QuoteWrite \/ Lookup \/ Valuation

SpecAppend == InitConcurrent /\ [][NextAppend]_vars

\* no result of the lookup before the step has a later ts than a result of the
\* lookup after it, and a quote found before is followed by a quote
NeverEarlier(before, after) ==
    \A q \in before, r \in after :
        /\ q.ts <= r.ts
        /\ q # NoQuote => r # NoQuote

\* the step inserts a quote older than a stored quote of its target
InsertsOlder ==
    \E q \in quotes' \ quotes :
        \E p \in quotes :
            /\ p.ts > q.ts
            /\ p.instrument = q.instrument
            /\ p.listing = q.listing
            /\ p.token = q.token

\* C26: across every step of a store whose quotes are only appended, the ts of
\* the quote each lookup selects for a listing, token or instrument does not
\* decrease, a lookup that found a quote still finds one, and the insertion of a
\* quote older than the latest of its target leaves every market value as it was.
C26_AppendOnlyMonotone ==
    [][/\ \A id \in ListingInputs :
              NeverEarlier(_latest_quote_for_listing(id),
                           _latest_quote_for_listing(id)')
       /\ \A id \in TokenInputs :
              NeverEarlier(_latest_quote_for_token(id), _latest_quote_for_token(id)')
       /\ \A id \in InstrumentInputs :
              NeverEarlier(_latest_quote_for_instrument(id),
                           _latest_quote_for_instrument(id)')
       /\ InsertsOlder =>
              \A a \in DOMAIN assets :
                  market_value_for_asset(a)' = market_value_for_asset(a)]_vars

\* a lookup has returned the later of two quotes of its target, of different
\* prices
C26_Witness ==
    /\ IsLookup
    /\ ret.result # NoQuote
    /\ \E p \in quotes :
           /\ p[LookupField[ret.op]] = ret.arg
           /\ p.ts < ret.result.ts
           /\ p.price # ret.result.price


(***************************************************************************)
(* The asset forms of the public site beside the ledgers of two users.     *)
(* Each user has an account; the admin adds an investment and a metal      *)
(* asset to them, and the edit and create views are posted to.  Neither    *)
(* view reads request.user: a post is the same step whoever issues it.     *)
(***************************************************************************)
InitForms ==
    /\ instruments = <<InstrumentRows[1]>>
    /\ quotes = {}
    /\ accounts = <<[owner |-> 1, name |-> "A"], [owner |-> 2, name |-> "A"]>>
    /\ assets = <<>>
    /\ investment = {}
    /\ metal = {}
    /\ transactions = {}
    /\ ret = NoCall

\* the categories posted
PostedCategories == {"INVESTMENT", "PRECIOUS_METAL", "OTHER"}

AdminAdd ==
    \/ \E account \in DOMAIN accounts : CreateInvestmentAsset(account, "a", "USD", 1, 0)
    \/ \E account \in DOMAIN accounts, pu \in Purities, w \in Weights :
           CreateMetalAsset(account, "b", "USD", "GOLD", pu, w)

\* AssetUpdateView.post and AssetCreateWithCategoryView.post, as any user can
\* issue them
AssetRequest ==
    \/ \E pk \in AssetPks, account \in DOMAIN accounts, name \in AssetNames,
          cat \in PostedCategories, mode \in Modes, l \in ListingInputs,
          t \in TokenInputs :
           UpdateInvestmentAsset(pk, account, name, cat, "USD", mode, l, t)
    \/ \E pk \in AssetPks, account \in DOMAIN accounts, name \in AssetNames,
          cat \in PostedCategories, m \in MetalInputs, pu \in Purities,
          w \in Weights :
           UpdateOtherAsset(pk, account, name, cat, "USD", m, pu, w)
    \/ \E mode \in Modes, l \in ListingInputs, t \in TokenInputs :
           AssetCreateWithCategoryView_post(mode, l, t)

NextForms == AdminAdd \/ AssetRequest

SpecForms == InitForms /\ [][NextForms]_vars

\* the assets in accounts of other users than U, with their detail rows
Foreign(U) ==
    LET others == {a \in DOMAIN assets : ~OwnedBy(U, a)}
    IN  [assets |-> [a \in others |-> assets[a]],
         investment |-> {d \in investment : d.asset \in others},
         metal |-> {d \in metal : d.asset \in others}]

\* C27: a post to the asset edit or create view by a user U leaves every asset
\* and detail row in an account of another user as it was, and adds no asset to
\* an account of another user.
C27_AssetFormsOwnerScoped ==
    [][\A U \in Users : AssetRequest => Foreign(U)' = Foreign(U)]_vars


(***************************************************************************)
(* The ledger views of the public site, answered: AssetDeleteView and the  *)
(* transaction views look the asset up among those of request.user and the *)
(* transaction among those of the asset; a lookup that finds nothing        *)
(* answers 404 and the store stays as it was.                              *)
(***************************************************************************)
Http404 == [raised |-> "Http404"]
Redirect == [redirect |-> TRUE]

\* the request and its answer: 404 unless the lookups found their rows
Request(view, user, asset_pk, pk, found) ==
    [op |-> view, arg |-> [user |-> user, asset |-> asset_pk, pk |-> pk],
     result |-> IF found THEN Redirect ELSE Http404]

\* get_object_or_404(asset.transactions, pk=pk) after the lookup of the asset
FindsTransaction(user, asset_pk, pk) ==
    /\ OwnedBy(user, asset_pk)
    /\ \E txn \in transactions : txn.pk = pk /\ txn.asset = asset_pk

\* AssetDeleteView.post: the asset goes with its detail rows and transactions
AssetDeleteView_post(user, pk) ==
    LET found == OwnedBy(user, pk)
        Kept(rows) == {r \in rows : ~found \/ r.asset # pk}
    IN  /\ ret' = Request("AssetDeleteView", user, pk, 0, found)
        /\ assets' = IF found THEN [a \in DOMAIN assets \ {pk} |-> assets[a]]
                     ELSE assets
        /\ investment' = Kept(investment)
        /\ metal' = Kept(metal)
        /\ transactions' = Kept(transactions)
        /\ UNCHANGED <<instruments, quotes, accounts>>

\* TransactionListView.get_queryset: asset.transactions
TransactionListView_get(user, asset_pk) ==
    /\ ret' = [Request("TransactionListView", user, asset_pk, 0, FALSE) EXCEPT
                  !.result = IF OwnedBy(user, asset_pk)
                             THEN {t \in transactions : t.asset = asset_pk}
                             ELSE Http404]
    /\ UNCHANGED store

\* TransactionCreateView.post: txn.asset = asset; txn.save()
TransactionCreateView_post(user, asset_pk, amount, fee, timestamp) ==
    LET found == OwnedBy(user, asset_pk)
    IN  /\ TxnPks \ {t.pk : t \in transactions} # {}
        /\ ret' = Request("TransactionCreateView", user, asset_pk, 0, found)
        /\ transactions' =
               IF found
               THEN transactions \cup
                        {[pk |-> NextTxnPk, asset |-> asset_pk, amount |-> amount,
                          fee |-> fee, timestamp |-> timestamp]}
               ELSE transactions
        /\ UNCHANGED <<instruments, quotes, accounts, assets, investment, metal>>

\* TransactionUpdateView.post: the form has no field asset
TransactionUpdateView_post(user, asset_pk, pk, amount, fee, timestamp) ==
    LET found == FindsTransaction(user, asset_pk, pk)
        Saved(txn) == IF found /\ txn.pk = pk
                      THEN [txn EXCEPT !.amount = amount, !.fee = fee,
                                       !.timestamp = timestamp]
                      ELSE txn
    IN  /\ ret' = Request("TransactionUpdateView", user, asset_pk, pk, found)
        /\ transactions' = {Saved(txn) : txn \in transactions}
        /\ UNCHANGED <<instruments, quotes, accounts, assets, investment, metal>>

\* TransactionDeleteView.post
TransactionDeleteView_post(user, asset_pk, pk) ==
    LET found == FindsTransaction(user, asset_pk, pk)
    IN  /\ ret' = Request("TransactionDeleteView", user, asset_pk, pk, found)
        /\ transactions' = {txn \in transactions : ~found \/ txn.pk # pk}
        /\ UNCHANGED <<instruments, quotes, accounts, assets, investment, metal>>

\* the asset and transaction ids requests are made with: those the ledger gives
\* and one it never gave
AssetArgs == AssetPks \cup {MaxAssets + 1}
TxnArgs == TxnPks \cup {MaxTxns + 1}

\* (amount, fee, timestamp) of the transactions posted
LedgerInputs == { <<100, 0, 1>>, <<50, 1, 2>> }

LedgerAdmin ==
    \/ \E account \in DOMAIN accounts : CreateOtherAsset(account, "a", "OTHER", "USD")
    \/ \E account \in DOMAIN accounts : CreateOtherAsset(account, "b", "OTHER", "USD")

NextLedger ==
    \/ LedgerAdmin
    \/ \E user \in Users, a \in AssetArgs : AssetDeleteView_post(user, a)
    \/ \E user \in Users, a \in AssetArgs : TransactionListView_get(user, a)
    \/ \E user \in Users, a \in AssetArgs, x \in LedgerInputs :
           TransactionCreateView_post(user, a, x[1], x[2], x[3])
    \/ \E user \in Users, a \in AssetArgs, pk \in TxnArgs, x \in LedgerInputs :
           TransactionUpdateView_post(user, a, pk, x[1], x[2], x[3])
    \/ \E user \in Users, a \in AssetArgs, pk \in TxnArgs :
           TransactionDeleteView_post(user, a, pk)

SpecLedger == InitForms /\ [][NextLedger]_vars

\* the asset exists and its account is owned by U
IsOwner(U, a) == a \in DOMAIN assets /\ accounts[assets[a].account].owner = U

\* the assets in accounts of other users than U, and their transactions
ForeignLedger(U) ==
    LET others == {a \in DOMAIN assets : ~IsOwner(U, a)}
    IN  [assets |-> [a \in others |-> assets[a]],
         transactions |-> {t \in transactions : t.asset \in others}]

\* the transaction list answered shows the transactions of the asset asked for,
\* to its owner alone
ListScoped ==
    ret.op = "TransactionListView" =>
        IF IsOwner(ret.arg.user, ret.arg.asset)
        THEN ret.result = {t \in transactions : t.asset = ret.arg.asset}
        ELSE ret.result = Http404

\* the views that write, and the request answered last
LedgerPosts ==
    {"AssetDeleteView", "TransactionCreateView", "TransactionUpdateView",
     "TransactionDeleteView"}

\* C28: the asset delete view and the transaction views are owner-scoped: a
\* request of U on an asset that is not U's changes nothing, no request of U
\* changes an asset or a transaction of another user, an edit or delete through
\* asset A leaves a transaction of another asset as it is, a created transaction
\* is attached to the asset of the request, and an edit keeps every transaction
\* on its asset.
C28_LedgerOwnerScoped ==
    /\ []ListScoped
    /\ [][\A U \in Users, A \in AssetArgs :
             (/\ ret'.op \in LedgerPosts
              /\ ret'.arg.user = U
              /\ ret'.arg.asset = A)
             =>  /\ ~IsOwner(U, A) => store' = store
                 /\ ForeignLedger(U)' = ForeignLedger(U)
                 /\ ret'.op \in {"TransactionUpdateView", "TransactionDeleteView"}
                    => \A t \in transactions : t.asset # A => t \in transactions'
                 /\ ret'.op = "TransactionCreateView"
                    => \A t \in transactions' \ transactions : t.asset = A
                 /\ ret'.op = "TransactionUpdateView"
                    => \A t \in transactions :
                           \E t2 \in transactions' :
                               t2.pk = t.pk /\ t2.asset = t.asset]_vars

\* user 1 has asked to delete, through an asset of user 2, a transaction that
\* this asset holds, and was answered 404
C28_Witness ==
    /\ ret.op = "TransactionDeleteView"
    /\ ret.result = Http404
    /\ ret.arg.user = 1
    /\ IsOwner(2, ret.arg.asset)
    /\ \E t \in transactions : t.pk = ret.arg.pk /\ t.asset = ret.arg.asset


(***************************************************************************)
(* The transaction views beside the overview's figures: two investment     *)
(* assets of user 1, priced or not by the quotes of the catalog, whose     *)
(* transactions are created, edited and deleted.                           *)
(***************************************************************************)
\* the Quote tables the ledger is posted to under
BalanceQuotes ==
    LET q1 == QuoteRow(0, 1, 0, 1, Price(<<1, 0, 0>>), "USD")
        q2 == QuoteRow(0, 0, 1, 2, Price(<<1, 1, 0>>), "EUR")
    IN  {{}, {q1}, {q1, q2}}

InitBalance ==
    /\ instruments = <<InstrumentRows[1]>>
    /\ quotes \in BalanceQuotes
    /\ accounts = <<[owner |-> 1, name |-> "A"]>>
    /\ assets = <<AssetRow(1, "a", "INVESTMENT", "USD"),
                  AssetRow(1, "b", "INVESTMENT", "USD")>>
    /\ investment =
           {InvestmentDetails_clean([asset |-> 1, instrument |-> 0,
                                     listing |-> 1, token |-> 0]),
            InvestmentDetails_clean([asset |-> 2, instrument |-> 0,
                                     listing |-> 0, token |-> 1])}
    /\ metal = {}
    /\ transactions = {}
    /\ ret = NoCall

NextBalance ==
    \/ \E user \in Users, a \in AssetArgs, x \in TxnInputs :
           TransactionCreateView_post(user, a, x[1], x[2], x[3])
    \/ \E user \in Users, a \in AssetArgs, pk \in TxnArgs, x \in TxnInputs :
           TransactionUpdateView_post(user, a, pk, x[1], x[2], x[3])
    \/ \E user \in Users, a \in AssetArgs, pk \in TxnArgs :
           TransactionDeleteView_post(user, a, pk)

SpecBalance == InitBalance /\ [][NextBalance]_vars

\* the step is a transaction post on asset A that was carried out
Posts(view, A) ==
    /\ ret'.op = view
    /\ ret'.result = Redirect
    /\ ret'.arg.asset = A

\* C29: a transaction of asset A created, edited or deleted changes the balance
\* of A alone, by the amount created or deleted, and no market value or market
\* currency.
C29_BalanceFrame ==
    [][\A A \in DOMAIN assets :
          /\ \A x \in TxnInputs, U \in Users :
                 (/\ Posts("TransactionCreateView", A)
                  /\ TransactionCreateView_post(U, A, x[1], x[2], x[3]))
                 => balance(A)' = balance(A) + x[1]
          /\ \A pk \in TxnPks :
                 (Posts("TransactionDeleteView", A) /\ ret'.arg.pk = pk)
                 => balance(A)' = balance(A) - AmountOn(A, pk)
          /\ (\/ Posts("TransactionCreateView", A)
              \/ Posts("TransactionUpdateView", A)
              \/ Posts("TransactionDeleteView", A))
             => /\ \A a \in DOMAIN assets \ {A} : balance(a)' = balance(a)
                /\ \A a \in DOMAIN assets :
                       market_value_for_asset(a)' = market_value_for_asset(a)]_vars

\* a transaction has been created on the priced asset 1, which holds another
\* one, while asset 2 holds none of them
C29_Witness ==
    /\ ret.op = "TransactionCreateView"
    /\ ret.result = Redirect
    /\ ret.arg.asset = 1
    /\ Cardinality({t \in transactions : t.asset = 1}) = 2
    /\ balance(1) = 50
    /\ balance(2) = 0
    /\ market_value_for_asset(1) # {NotPriced}


(***************************************************************************)
(* Accounts created and renamed (AccountAdmin) beside the overview, which  *)
(* groups the rows of a user by account name.                              *)
(***************************************************************************)
\* the account names given
AccountNames == {"A", "a"}

\* the accounts the admin creates
MaxAccounts == 3

\* AccountAdmin's change view: owner and name are saved unless another account
\* has the same (owner, name)
UpdateAccount(i, owner, name) ==
    /\ i \in DOMAIN accounts
    /\ \A k \in DOMAIN accounts \ {i} :
           ~(accounts[k].owner = owner /\ accounts[k].name = name)
    /\ accounts' = [accounts EXCEPT ![i] = [owner |-> owner, name |-> name]]
    /\ ret' = NoCall
    /\ UNCHANGED <<instruments, quotes, assets, investment, metal, transactions>>

NextAccounts ==
    \/ \E user \in Users, name \in AccountNames :
           /\ Len(accounts) < MaxAccounts
           /\ CreateAccount(user, name)
    \/ \E i \in 1..MaxAccounts, user \in Users, name \in AccountNames :
           UpdateAccount(i, user, name)
    \/ \E account \in DOMAIN accounts, name \in AssetNames :
           CreateOtherAsset(account, name, "OTHER", "USD")
    \/ Overview

SpecAccounts == Init /\ [][NextAccounts]_vars

\* the accounts the rows of the g-th group of the overview held are in
AccountsOfGroup(g) ==
    {assets[ret.result.accounts[g].rows[k].asset].account :
        k \in DOMAIN ret.result.accounts[g].rows}

\* C30: in the overview of a user every account group holds the assets of
\* exactly one account, and every account of the user that has assets is shown
\* by exactly one group.
C30_GroupsAreAccounts ==
    (IsOverview /\ ~Raised(ret.result)) =>
        /\ \A g \in DOMAIN ret.result.accounts :
               Cardinality(AccountsOfGroup(g)) = 1
        /\ \A i \in DOMAIN accounts :
               (/\ accounts[i].owner = ret.arg
                /\ \E a \in DOMAIN assets : assets[a].account = i)
               => Cardinality({g \in DOMAIN ret.result.accounts :
                                  i \in AccountsOfGroup(g)}) = 1

\* the overview of a user with two groups, one of them of an account that was
\* renamed to the name an account of the other user has
C30_Witness ==
    /\ IsOverview
    /\ ~Raised(ret.result)
    /\ Len(ret.result.accounts) = 2
    /\ \E i, k \in DOMAIN accounts :
           /\ accounts[i].owner = ret.arg
           /\ accounts[k].owner # ret.arg
           /\ accounts[i].name = accounts[k].name
           /\ \E a \in DOMAIN assets : assets[a].account = i

====
